---------------------------- MODULE Spec2Model ----------------------------
(***************************************************************************)
(* A model of libpropcalc: formulas in polish notation, assignments,       *)
(* evaluation and simplification, the CNF and Tseitin clause streams, the  *)
(* truth table stream, the infix parser and printer and the variable       *)
(* Cache.  Every operator is translated from the C++ source it names in    *)
(* its comment.                                                            *)
(***************************************************************************)
EXTENDS Integers, Sequences, FiniteSets, TLC

VARIABLES
    fm,          \* Formula::pn of the formula under test (preorder AST)
    pc,          \* where the caller of the object under test stands
    received,    \* the values the caller has received so far, in order
    cnf,         \* the CNF stream object: queue, current, last, cl
    ts,          \* the Tseitin stream object: astcache, clauses, queue, last, valid
    tt,          \* the Truthtable stream object: last
    arg,         \* the Assignment passed to the call under test
    ret,         \* what the last call returned or threw
    text,        \* the string handed to the parser, or the lines of a file
    domain,      \* the Cache under test: cache, by_name, by_nr, by_ref, frozen
    threads,     \* per thread calling into the Cache: its position and locals
    lock,        \* the threads holding the mutex Cache::access
    st           \* the Stream under test and the iterators over it

vars_all ==
    <<fm, pc, received, cnf, ts, tt, arg, ret, text, domain, threads, lock, st>>

(***************************************************************************)
(* Bounds of the model.                                                    *)
(***************************************************************************)
\* largest number of AST nodes of a formula under test
MaxNodes == 5

\* largest number of variables a Cache under test is let to hold
MaxVars == 3

\* number of variables in a Cache beyond which threads start no allocation
MaxSharedVars == 2

(***************************************************************************)
(* The Domain the formulas under test live in: a Cache that has interned   *)
(* the names below in this order, so VarNr n is the n-th name.  A name is  *)
(* the sequence of its characters; a VarRef of this Domain is represented  *)
(* by the name of the variable it points to.                               *)
(***************************************************************************)
Names == << <<"a">>, <<"b">>, <<"c">> >>

\* Cache::unpack for an allocated VarNr: by_nr[nr - 1]
unpack(nr) == Names[nr]

\* Cache::pack for an allocated VarRef: by_ref[var]
pack(v) == CHOOSE n \in 1..Len(Names) : Names[n] = v

(***************************************************************************)
(* AST nodes.  formula.cpp keeps a formula as the preorder traversal of    *)
(* its AST, a vector of nodes copied from the operator table OPS.          *)
(***************************************************************************)
make_const(value) == [type |-> "Const", value |-> value, var |-> 0]
make_var(nr)      == [type |-> "Var",   value |-> FALSE, var |-> nr]
make_op(type)     == [type |-> type,    value |-> FALSE, var |-> 0]

BinaryTypes == {"And", "Or", "Impl", "Eqv", "Xor"}

\* Ast::Arity of a node (OPS table)
Arity(ast) ==
    CASE ast.type \in {"Const", "Var"} -> 0
      [] ast.type = "Not"              -> 1
      [] OTHER                         -> 2

\* Ast::Prec of a node (OPS table, enum class Prec)
PrecSymbolic == 20
PrecNotish   == 14
PrecAndish   == 12
PrecOrish    == 10
PrecImplish  == 8
PrecEqvish   == 6
PrecXorish   == PrecEqvish

Prec(ast) ==
    CASE ast.type \in {"Const", "Var"} -> PrecSymbolic
      [] ast.type = "Not"  -> PrecNotish
      [] ast.type = "And"  -> PrecAndish
      [] ast.type = "Or"   -> PrecOrish
      [] ast.type = "Impl" -> PrecImplish
      [] ast.type = "Eqv"  -> PrecEqvish
      [] ast.type = "Xor"  -> PrecXorish

make_unary(op, rhs)       == <<make_op(op)>> \o rhs
make_binary(op, lhs, rhs) == <<make_op(op)>> \o lhs \o rhs

\* The well-formed formulas with exactly n nodes.
RECURSIVE FormulasOfSize(_)
FormulasOfSize(n) ==
    IF n = 1
    THEN {<<make_const(b)>> : b \in BOOLEAN}
         \cup {<<make_var(nr)>> : nr \in 1..Len(Names)}
    ELSE {make_unary("Not", f) : f \in FormulasOfSize(n - 1)}
         \cup UNION { UNION { {make_binary(op, l, r) : op \in BinaryTypes} :
                              l \in FormulasOfSize(k),
                              r \in FormulasOfSize(n - 1 - k) } :
                      k \in 1..(n - 2) }

Formulas == UNION {FormulasOfSize(n) : n \in 1..MaxNodes}

(***************************************************************************)
(* Formula::iterator: the subformula rooted at a node ends where the       *)
(* balance of needed operands first reaches zero.                          *)
(***************************************************************************)
\* index just past the subformula rooted at pn[root]
RECURSIVE SubEnd(_, _)
SubEnd(pn, root) ==
    CASE Arity(pn[root]) = 0 -> root + 1
      [] Arity(pn[root]) = 1 -> SubEnd(pn, root + 1)
      [] OTHER               -> SubEnd(pn, SubEnd(pn, root + 1))

\* iterator::operands: the roots of the operands of the node at root
operands(pn, root) ==
    CASE Arity(pn[root]) = 0 -> <<>>
      [] Arity(pn[root]) = 1 -> <<root + 1>>
      [] OTHER               -> <<root + 1, SubEnd(pn, root + 1)>>

\* iterator::materialize: the subformula rooted at root as a formula
materialize(pn, root) == SubSeq(pn, root, SubEnd(pn, root) - 1)

\* the operand subtrees of the root of a formula (Ast::Not::rhs, lhs, rhs)
Lhs(pn) == materialize(pn, operands(pn, 1)[1])
Rhs(pn) == materialize(pn, operands(pn, 1)[Arity(pn[1])])

(***************************************************************************)
(* Formula::varnrs and Formula::vars                                       *)
(***************************************************************************)
RECURSIVE varnrsFrom(_, _, _)
varnrsFrom(pn, i, out) ==
    IF i > Len(pn) THEN out
    ELSE IF pn[i].type = "Var" /\ \A j \in 1..Len(out) : out[j] # pn[i].var
         THEN varnrsFrom(pn, i + 1, Append(out, pn[i].var))
         ELSE varnrsFrom(pn, i + 1, out)

varnrs(pn) == varnrsFrom(pn, 1, <<>>)

\* std::sort of a vector of distinct numbers
RECURSIVE SortedSeq(_)
SortedSeq(S) ==
    IF S = {} THEN <<>>
    ELSE LET m == CHOOSE x \in S : \A y \in S : x <= y
         IN <<m>> \o SortedSeq(S \ {m})

sort(nrs) == SortedSeq({nrs[i] : i \in 1..Len(nrs)})

vars(pn) ==
    LET nrs == sort(varnrs(pn))
    IN [i \in 1..Len(nrs) |-> unpack(nrs[i])]

(***************************************************************************)
(* VarMap, Assignment and Clause                                           *)
(***************************************************************************)
Range(s) == {s[i] : i \in 1..Len(s)}

\* an exists that finds no variable
exists_never(vm, v) == FALSE

\* VarMap::exists
exists(vm, v) == v \in DOMAIN vm.vmap

\* VarMap::VarMap(vector<VarRef>) and Clause::Clause(vector<VarRef>)
VarMapOf(vs) ==
    [order |-> vs,
     vmap  |-> [v \in Range(vs) |-> FALSE]]

\* Assignment::Assignment(vector<VarRef>)
AssignmentOf(vs) ==
    [order    |-> vs,
     vmap     |-> [v \in Range(vs) |-> FALSE],
     overflow |-> Len(vs) = 0]

\* Clause::Clause(VarMap&&): the VarMap part of an Assignment
ClauseOf(a) == [order |-> a.order, vmap |-> a.vmap]

\* Assignment::operator[] in its value-assignment form
Store(vm, v, b) ==
    [vm EXCEPT !.order  = IF v \in DOMAIN vm.vmap THEN @ ELSE Append(@, v),
               !.vmap   = [w \in DOMAIN vm.vmap \cup {v} |->
                              IF w = v THEN b ELSE vm.vmap[w]]]

\* Assignment::operator~
RECURSIVE NegateFrom(_, _, _)
NegateFrom(a, i, neg) ==
    IF i > Len(a.order) THEN neg
    ELSE NegateFrom(a, i + 1, Store(neg, a.order[i], ~a.vmap[a.order[i]]))

Negate(a) == NegateFrom(a, 1, AssignmentOf(a.order))

\* Assignment::operator++
RECURSIVE IncrementFrom(_, _, _)
IncrementFrom(a, i, n) ==
    IF i > Len(a.order)
    THEN [a EXCEPT !.overflow = (n >= Cardinality(DOMAIN a.vmap))]
    ELSE LET v   == a.order[i]
             bit == ~a.vmap[v]
             b   == [a EXCEPT !.vmap[v] = bit]
         IN IF bit
            THEN [b EXCEPT !.overflow = (n >= Cardinality(DOMAIN a.vmap))]
            ELSE IncrementFrom(b, i + 1, n + 1)

\* an increment that never reports the wrap-around
IncrementSilent(a) == [IncrementFrom(a, 1, 0) EXCEPT !.overflow = FALSE]

Increment(a) == IncrementFrom(a, 1, 0)

\* clause_eval: a clause is satisfied by an assignment
clause_eval(c, a) ==
    \E i \in 1..Len(a.order) :
        /\ exists(c, a.order[i])
        /\ c.vmap[a.order[i]] = a.vmap[a.order[i]]

\* every total assignment on the variables vs, in the order vs
TotalAssignments(vs) ==
    {[order |-> vs, vmap |-> f, overflow |-> FALSE] :
        f \in [Range(vs) -> BOOLEAN]}

(***************************************************************************)
(* Formula::eval, the iterative evaluator: one pass over the preorder      *)
(* vector from its end with a stack of values.  The result is a record:    *)
(* thrown says that std::out_of_range left the call.                       *)
(***************************************************************************)
Thrown == [thrown |-> TRUE, value |-> FALSE]
Value(b) == [thrown |-> FALSE, value |-> b]

Back(terms) == terms[Len(terms)]
PopBack(terms) == SubSeq(terms, 1, Len(terms) - 1)
SetBack(terms, b) == [terms EXCEPT ![Len(terms)] = b]

\* the switch with the operands of the implication taken in the wrong order
ConnectiveSwapped(type, lhs, rhs) ==
    CASE type = "And"  -> lhs /\ rhs
      [] type = "Or"   -> lhs \/ rhs
      [] type = "Impl" -> ~rhs \/ lhs
      [] type = "Eqv"  -> lhs = rhs
      [] type = "Xor"  -> lhs # rhs

\* the connective of a binary node applied to two values
Connective(type, lhs, rhs) ==
    CASE type = "And"  -> lhs /\ rhs
      [] type = "Or"   -> lhs \/ rhs
      [] type = "Impl" -> ~lhs \/ rhs
      [] type = "Eqv"  -> lhs = rhs
      [] type = "Xor"  -> lhs # rhs

RECURSIVE evalLoop(_, _, _, _)
evalLoop(pn, assign, i, terms) ==
    IF i = 0 THEN Value(terms[1])
    ELSE LET ast == pn[i] IN
         CASE ast.type = "Const" ->
                evalLoop(pn, assign, i - 1, Append(terms, ast.value))
           [] ast.type = "Var" ->
                IF exists(assign, unpack(ast.var))
                THEN evalLoop(pn, assign, i - 1,
                              Append(terms, assign.vmap[unpack(ast.var)]))
                ELSE Thrown
           [] ast.type = "Not" ->
                evalLoop(pn, assign, i - 1, SetBack(terms, ~Back(terms)))
           [] OTHER ->
                LET lhs  == Back(terms)
                    rest == PopBack(terms)
                IN evalLoop(pn, assign, i - 1,
                            SetBack(rest, Connective(ast.type, lhs, Back(rest))))

eval(pn, assign) == evalLoop(pn, assign, Len(pn), <<>>)

(***************************************************************************)
(* The CNF stream                                                          *)
(***************************************************************************)
Null == <<>>

\* CNF::CNF, the loop that splits the And nodes at the front of the queue
RECURSIVE SplitFront(_)
SplitFront(queue) ==
    IF Head(queue)[1].type = "And"
    THEN SplitFront(Tail(queue) \o <<Lhs(Head(queue)), Rhs(Head(queue))>>)
    ELSE queue

\* CNF::operator++; thrown records that fm.eval raised std::out_of_range
RECURSIVE CnfAdvance(_, _), CnfTest(_, _)
CnfAdvance(pn, s) ==
    IF s.current = Null
    THEN IF Len(s.queue) = 0
         THEN s
         ELSE CnfTest(pn, [s EXCEPT !.current = Head(s.queue),
                                    !.queue   = Tail(s.queue),
                                    !.last    = AssignmentOf(vars(Head(s.queue)))])
    ELSE LET inc == Increment(s.last)
         IN IF inc.overflow
            THEN CnfAdvance(pn, [s EXCEPT !.last = inc, !.current = Null])
            ELSE CnfTest(pn, [s EXCEPT !.last = inc])

CnfTest(pn, s) ==
    LET r == eval(pn, s.last)
    IN IF r.thrown THEN [s EXCEPT !.thrown = TRUE]
       ELSE IF ~r.value THEN [s EXCEPT !.cl = ClauseOf(Negate(s.last))]
       ELSE CnfAdvance(pn, s)

\* the members of a CNF object before its constructor body has run
NoCnf == [queue |-> <<>>, current |-> Null, last |-> AssignmentOf(<<>>),
          cl |-> VarMapOf(<<>>), thrown |-> FALSE]

\* CNF::CNF
CnfNew(pn) == CnfAdvance(pn, [NoCnf EXCEPT !.queue = SplitFront(<<pn>>)])

\* CNF::exhausted
exhausted(s) == Len(s.queue) = 0 /\ s.current = Null

(***************************************************************************)
(* The Tseitin stream.  A VarRef of the Tseitin domain is represented by   *)
(* its VarNr there; astcache[n] is the subformula whose variable has       *)
(* VarNr n.                                                                *)
(***************************************************************************)
\* VarMap::VarMap(initializer_list): a variable given twice is appended to
\* the order twice and keeps its first sign
RECURSIVE VarMapFrom(_, _, _)
VarMapFrom(il, i, vm) ==
    IF i > Len(il) THEN vm
    ELSE LET v == il[i][1]
             b == il[i][2]
         IN VarMapFrom(il, i + 1,
               [order |-> Append(vm.order, v),
                vmap  |-> IF v \in DOMAIN vm.vmap THEN vm.vmap
                          ELSE [w \in DOMAIN vm.vmap \cup {v} |->
                                   IF w = v THEN b ELSE vm.vmap[w]]])

make_clause(il) == VarMapFrom(il, 1, VarMapOf(<<>>))

\* Ast::equals: two ASTs are equal when they have the same structure
equals(x, y) == x = y

\* a get that allocates without looking for the AST in the cache
get_fresh(astcache, ast) == Append(astcache, ast)

\* Tseitin::Domain::get: the astcache after the call, and the VarRef returned
get(astcache, ast) ==
    IF \E n \in 1..Len(astcache) : equals(ast, astcache[n])
    THEN astcache
    ELSE Append(astcache, ast)

got(astcache, ast) ==
    CHOOSE n \in 1..Len(astcache) : equals(ast, astcache[n])

\* the clauses pushed whatever the operands are
Unguarded(a, b, cls) == cls

\* if (a != b): the clauses that would hold one variable with both signs
Guarded(a, b, cls) == IF a # b THEN cls ELSE <<>>

\* the clauses that Tseitin::operator++ pushes for a node of the given type
\* whose variable is c and whose operands have the variables a and b
Template(ast, a, b, c) ==
    CASE ast.type = "Const" -> <<make_clause(<< <<c, ast.value>> >>)>>
      [] ast.type = "Var"   -> <<>>
      [] ast.type = "Not"   ->
           <<make_clause(<< <<a, FALSE>>, <<c, FALSE>> >>),
             make_clause(<< <<a, TRUE>>,  <<c, TRUE>> >>)>>
      [] ast.type = "And"   ->
           <<make_clause(<< <<a, FALSE>>, <<b, FALSE>>, <<c, TRUE>> >>),
             make_clause(<< <<a, TRUE>>,                <<c, FALSE>> >>),
             make_clause(<<               <<b, TRUE>>,  <<c, FALSE>> >>)>>
      [] ast.type = "Or"    ->
           <<make_clause(<< <<a, TRUE>>,  <<b, TRUE>>,  <<c, FALSE>> >>),
             make_clause(<< <<a, FALSE>>,               <<c, TRUE>> >>),
             make_clause(<<               <<b, FALSE>>, <<c, TRUE>> >>)>>
      [] ast.type = "Impl"  ->
           Guarded(a, b,
             <<make_clause(<< <<a, FALSE>>, <<b, TRUE>>,  <<c, FALSE>> >>)>>)
           \o
           <<make_clause(<< <<a, TRUE>>,                <<c, TRUE>> >>),
             make_clause(<<               <<b, FALSE>>, <<c, TRUE>> >>)>>
      [] ast.type = "Eqv"   ->
           <<make_clause(<< <<a, FALSE>>, <<b, FALSE>>, <<c, TRUE>> >>),
             make_clause(<< <<a, TRUE>>,  <<b, TRUE>>,  <<c, TRUE>> >>)>>
           \o
           Guarded(a, b,
             <<make_clause(<< <<a, TRUE>>,  <<b, FALSE>>, <<c, FALSE>> >>),
               make_clause(<< <<a, FALSE>>, <<b, TRUE>>,  <<c, FALSE>> >>)>>)
      [] ast.type = "Xor"   ->
           <<make_clause(<< <<a, FALSE>>, <<b, FALSE>>, <<c, FALSE>> >>),
             make_clause(<< <<a, TRUE>>,  <<b, TRUE>>,  <<c, FALSE>> >>)>>
           \o
           Guarded(a, b,
             <<make_clause(<< <<a, TRUE>>,  <<b, FALSE>>, <<c, TRUE>> >>),
               make_clause(<< <<a, FALSE>>, <<b, TRUE>>,  <<c, TRUE>> >>)>>)

\* Tseitin::operator++
RECURSIVE TseitinAdvance(_)
TseitinAdvance(s) ==
    IF Len(s.clauses) > 0
    THEN [s EXCEPT !.last = Head(s.clauses), !.clauses = Tail(s.clauses),
                   !.valid = TRUE]
    ELSE IF Len(s.queue) = 0
    THEN [s EXCEPT !.valid = FALSE]
    ELSE LET pn    == Head(s.queue)
             ast   == pn[1]
             kids  == [k \in 1..Arity(ast) |->
                          materialize(pn, operands(pn, 1)[k])]
             cache == IF ast.type = "Var" THEN s.astcache
                      ELSE IF Arity(ast) = 0 THEN get(s.astcache, pn)
                      ELSE IF Arity(ast) = 1
                      THEN get(get(s.astcache, pn), kids[1])
                      ELSE get(get(get(s.astcache, pn), kids[1]), kids[2])
             c     == IF ast.type = "Var" THEN 0 ELSE got(cache, pn)
             a     == IF Arity(ast) = 0 THEN 0 ELSE got(cache, kids[1])
             b     == IF Arity(ast) = 2 THEN got(cache, kids[2]) ELSE 0
         IN TseitinAdvance(
               [s EXCEPT !.astcache = cache,
                         !.clauses  = @ \o Template(ast, a, b, c),
                         !.queue    = Tail(@) \o kids])

\* the members of a Tseitin object before its constructor body has run
NoTseitin == [astcache |-> <<>>, clauses |-> <<>>, queue |-> <<>>,
              last |-> VarMapOf(<<>>), valid |-> FALSE]

\* Tseitin::Tseitin
TseitinNew(pn) ==
    TseitinAdvance(
        [NoTseitin EXCEPT
            !.astcache = get(<<>>, pn),
            !.clauses  = <<make_clause(<< <<got(get(<<>>, pn), pn), TRUE>> >>)>>,
            !.queue    = <<pn>>])

\* Tseitin::Domain::list, by way of Tseitin::get_domain
TseitinList(s) == [n \in 1..Len(s.astcache) |-> n]

\* Tseitin::lift: every variable of the Tseitin domain takes the value of
\* its subformula under the assignment A on the source domain
lift(s, A) ==
    [order    |-> TseitinList(s),
     vmap     |-> [n \in 1..Len(s.astcache) |-> eval(s.astcache[n], A).value],
     overflow |-> FALSE]

\* Tseitin::project: the assignment on the source domain read off the
\* variables of the Tseitin domain that stand for Var nodes
project(s, pn, L) ==
    [order    |-> vars(pn),
     vmap     |-> [v \in Range(vars(pn)) |->
                     L.vmap[got(s.astcache, <<make_var(pack(v))>>)]],
     overflow |-> FALSE]

(***************************************************************************)
(* Formula::EVAL, the recursive evaluator: && and || of C++ do not         *)
(* evaluate their right operand when the left one decides.                 *)
(***************************************************************************)
RECURSIVE EVAL(_, _)
EVAL(pn, a) ==
    LET ast == pn[1] IN
    CASE ast.type = "Const" -> Value(ast.value)
      [] ast.type = "Var" ->
           IF exists(a, unpack(ast.var))
           THEN Value(a.vmap[unpack(ast.var)])
           ELSE Thrown
      [] ast.type = "Not" ->
           LET r == EVAL(Rhs(pn), a)
           IN IF r.thrown THEN Thrown ELSE Value(~r.value)
      [] ast.type = "And" ->
           LET l == EVAL(Lhs(pn), a)
           IN IF l.thrown THEN Thrown
              ELSE IF ~l.value THEN Value(FALSE) ELSE EVAL(Rhs(pn), a)
      [] ast.type = "Or" ->
           LET l == EVAL(Lhs(pn), a)
           IN IF l.thrown THEN Thrown
              ELSE IF l.value THEN Value(TRUE) ELSE EVAL(Rhs(pn), a)
      [] ast.type = "Impl" ->
           LET l == EVAL(Lhs(pn), a)
           IN IF l.thrown THEN Thrown
              ELSE IF ~l.value THEN Value(TRUE) ELSE EVAL(Rhs(pn), a)
      [] OTHER ->
           LET l == EVAL(Lhs(pn), a)
               r == EVAL(Rhs(pn), a)
           IN IF l.thrown \/ r.thrown THEN Thrown
              ELSE Value(Connective(ast.type, l.value, r.value))

(***************************************************************************)
(* Formula::SIMPLIFY and Formula::simplify                                 *)
(***************************************************************************)
\* the loop "while (rhsi->type == Not) ++rhsi": rhs without its leading Nots
RECURSIVE SkipNots(_)
SkipNots(rhs) == IF rhs[1].type = "Not" THEN SkipNots(Tail(rhs)) ELSE rhs

RECURSIVE SIMPLIFY(_, _)
SIMPLIFY(pn, a) ==
    LET ast == pn[1] IN
    CASE ast.type = "Const" -> <<ast>>
      [] ast.type = "Var" ->
           IF exists(a, unpack(ast.var))
           THEN <<make_const(a.vmap[unpack(ast.var)])>>
           ELSE <<ast>>
      [] ast.type = "Not" ->
           LET rhs     == SIMPLIFY(Rhs(pn), a)
               rhsi    == SkipNots(rhs)
               toggles == 1
           IN IF rhsi[1].type = "Const"
              THEN <<make_const(~rhsi[1].value)>>
              ELSE (IF toggles % 2 # 0 THEN <<make_op("Not")>> ELSE <<>>)
                   \o rhsi
      [] OTHER ->
           LET lhs == SIMPLIFY(Lhs(pn), a)
               rhs == SIMPLIFY(Rhs(pn), a)
               T   == <<make_const(TRUE)>>
               F   == <<make_const(FALSE)>>
               lc  == lhs[1].type = "Const"
               rc  == rhs[1].type = "Const"
               lv  == lhs[1].value
               rv  == rhs[1].value
           IN CASE ast.type = "And" ->
                     IF lc THEN (IF lv THEN rhs ELSE F)
                     ELSE IF rc THEN (IF rv THEN lhs ELSE F)
                     ELSE make_binary("And", lhs, rhs)
                [] ast.type = "Or" ->
                     IF lc THEN (IF lv THEN T ELSE rhs)
                     ELSE IF rc THEN (IF rv THEN T ELSE lhs)
                     ELSE make_binary("Or", lhs, rhs)
                [] ast.type = "Impl" ->
                     IF lc THEN (IF lv THEN rhs ELSE T)
                     ELSE IF rc
                     THEN (IF rv THEN T
                           ELSE SIMPLIFY(make_unary("Not", lhs), a))
                     ELSE make_binary("Impl", lhs, rhs)
                [] ast.type = "Eqv" ->
                     IF lc THEN (IF lv THEN rhs
                                 ELSE SIMPLIFY(make_unary("Not", rhs), a))
                     ELSE IF rc
                     THEN (IF rv THEN lhs
                           ELSE SIMPLIFY(make_unary("Not", lhs), a))
                     ELSE make_binary("Eqv", lhs, rhs)
                [] ast.type = "Xor" ->
                     IF lc THEN (IF lv THEN SIMPLIFY(make_unary("Not", rhs), a)
                                 ELSE rhs)
                     ELSE IF rc
                     THEN (IF rv THEN SIMPLIFY(make_unary("Not", lhs), a)
                           ELSE lhs)
                     ELSE make_binary("Xor", lhs, rhs)

simplify(pn, a) == SIMPLIFY(pn, a)

\* Assignment::Assignment(initializer_list) on distinct variables
AssignmentFrom(vs, f) ==
    [order |-> vs, vmap |-> f, overflow |-> Len(vs) = 0]

\* the variables of the source domain in a set, in the order of the domain
InOrder(S) ==
    LET nrs == SortedSeq({pack(v) : v \in S})
    IN [i \in 1..Len(nrs) |-> unpack(nrs[i])]

\* every assignment on some of the variables of the source domain
PartialAssignments ==
    UNION {{AssignmentFrom(InOrder(S), f) : f \in [S -> BOOLEAN]} :
              S \in SUBSET Range(Names)}

\* the assignments on exactly the variables that a leaves open
Extensions(a) ==
    LET S == Range(Names) \ DOMAIN a.vmap
    IN {AssignmentFrom(InOrder(S), f) : f \in [S -> BOOLEAN]}

\* a and b together, b's variables after a's
Union(a, b) ==
    [order    |-> a.order \o b.order,
     vmap     |-> [v \in DOMAIN a.vmap \cup DOMAIN b.vmap |->
                     IF v \in DOMAIN a.vmap THEN a.vmap[v] ELSE b.vmap[v]],
     overflow |-> FALSE]

NoAssignment == AssignmentOf(<<>>)
NoRet == [call |-> "none"]
NoStream == [kind |-> "none"]

(***************************************************************************)
(* The Cache (domain.cpp).  A Cache is a record of its members: cache is   *)
(* the vector of owned Variables, each represented by its name; a VarRef   *)
(* is the position of the Variable in cache; by_name, by_nr and by_ref are *)
(* the three lookup tables.  An operation yields the Cache after the call  *)
(* (d), the value returned (ret) and the exception that left it (thrown).  *)
(***************************************************************************)
NewCache ==
    [cache   |-> <<>>,
     by_name |-> <<>>,
     by_nr   |-> <<>>,
     by_ref  |-> <<>>,
     frozen  |-> FALSE]

\* m with the pair (k, v) inserted unless the key is present
Insert(m, k, v) ==
    IF k \in DOMAIN m THEN m
    ELSE [x \in DOMAIN m \cup {k} |-> IF x = k THEN v ELSE m[x]]

Returned(d, value)  == [d |-> d, ret |-> value, thrown |-> "none"]
Raised(d, what)     == [d |-> d, ret |-> 0, thrown |-> what]

\* std::to_string of a positive number
Digits == <<"0", "1", "2", "3", "4", "5", "6", "7", "8", "9">>

RECURSIVE to_string(_)
to_string(n) ==
    IF n < 10 THEN <<Digits[n + 1]>>
    ELSE Append(to_string(n \div 10), Digits[(n % 10) + 1])

\* put_variable putting the new variable at the front of by_nr
put_variable_front(d, name) ==
    IF d.frozen THEN Raised(d, "Frozen")
    ELSE LET var    == Len(d.cache) + 1
             by_nr1 == <<var>> \o d.by_nr
             nr     == Len(by_nr1)
         IN Returned([d EXCEPT !.cache   = Append(@, name),
                               !.by_name = Insert(@, name, var),
                               !.by_nr   = by_nr1,
                               !.by_ref  = Insert(@, var, nr)],
                     nr)

\* put_variable taking the VarNr before the push_back on by_nr
put_variable_early(d, name) ==
    IF d.frozen THEN Raised(d, "Frozen")
    ELSE LET var == Len(d.cache) + 1
             nr  == Len(d.by_nr)
         IN Returned([d EXCEPT !.cache   = Append(@, name),
                               !.by_name = Insert(@, name, var),
                               !.by_nr   = Append(@, var),
                               !.by_ref  = Insert(@, var, nr)],
                     nr)

\* Cache::put_variable; ret is the VarNr of the pair returned, the VarRef
\* being the last position of cache
put_variable(d, name) ==
    IF d.frozen THEN Raised(d, "Frozen")
    ELSE LET var    == Len(d.cache) + 1
             by_nr1 == Append(d.by_nr, var)
             nr     == Len(by_nr1)
         IN Returned([d EXCEPT !.cache   = Append(@, name),
                               !.by_name = Insert(@, name, var),
                               !.by_nr   = by_nr1,
                               !.by_ref  = Insert(@, var, nr)],
                     nr)

\* Cache::new_variable
new_variable(d, name) ==
    IF d.frozen THEN Raised(d, "Frozen") ELSE put_variable(d, name)

\* Cache::resolve
resolve(d, name) ==
    IF name \notin DOMAIN d.by_name
    THEN LET r == new_variable(d, name)
         IN IF r.thrown # "none" THEN r ELSE Returned(r.d, Len(r.d.cache))
    ELSE Returned(d, d.by_name[name])

\* Cache::pack: unordered_map::operator[] inserts a zero for a missing key
Pack(d, var) ==
    LET by_ref1 == Insert(d.by_ref, var, 0)
    IN Returned([d EXCEPT !.by_ref = by_ref1], by_ref1[var])

\* Cache::unpack, the loop that allocates the missing variables
RECURSIVE unpackLoop(_, _, _)
unpackLoop(d, max, nr) ==
    IF max < nr
    THEN LET r == new_variable(d, to_string(max + 1))
         IN IF r.thrown # "none" THEN r ELSE unpackLoop(r.d, r.ret, nr)
    ELSE Returned(d, d.by_nr[nr])

\* an unpack that counts VarNrs from 0
UnpackFromZero(d, nr) == unpackLoop(d, Len(d.cache), nr + 1)

\* Cache::unpack
Unpack(d, nr) ==
    IF nr = 0 THEN Raised(d, "InvalidVarNr")
    ELSE unpackLoop(d, Len(d.cache), nr)

\* Cache::list
list(d) == d.by_nr

\* Cache::size
size(d) == Len(d.cache)

\* a freeze that leaves the flag alone
freeze_nothing(d) == d

\* Cache::freeze
freeze(d) == [d EXCEPT !.frozen = TRUE]

\* Cache::thaw
thaw(d) == [d EXCEPT !.frozen = FALSE]

\* Variable::name of the variable a VarRef points to
NameOf(d, var) == d.cache[var]

(***************************************************************************)
(* The tokenizer (formula.cpp, next_token).  A string is the sequence of   *)
(* its characters and is indexed from 0 as in C; the character at the      *)
(* index Len(s) is the terminating NUL.                                    *)
(***************************************************************************)
NUL == ""

Lower == {"a", "b", "c", "d", "e", "f", "g", "h", "i", "j", "k", "l", "m",
          "n", "o", "p", "q", "r", "s", "t", "u", "v", "w", "x", "y", "z"}
Upper == {"A", "B", "C", "D", "E", "F", "G", "H", "I", "J", "K", "L", "M",
          "N", "O", "P", "Q", "R", "S", "T", "U", "V", "W", "X", "Y", "Z"}

\* a blank that is taken for a token
isblank_tab(ch) == ch = "\t"

isblank(ch) == ch \in {" ", "\t"}
isalnum(ch) == ch \in Lower \cup Upper \cup Range(Digits)

At(s, i) == IF i < Len(s) THEN s[i + 1] ELSE NUL

\* "while (isblank(s[i])) i++"
RECURSIVE SkipBlank(_, _)
SkipBlank(s, i) == IF isblank(At(s, i)) THEN SkipBlank(s, i + 1) ELSE i

\* "while (s[i++] != ']')": the index of the closing bracket, or -1 when
\* the loop runs over the terminating NUL and past the end of the string
RECURSIVE FindClose(_, _)
FindClose(s, i) ==
    IF i >= Len(s) THEN -1
    ELSE IF At(s, i) = "]" THEN i ELSE FindClose(s, i + 1)

\* "while (isalnum(s[i]) || s[i] == '_') i++"
RECURSIVE SymEnd(_, _)
SymEnd(s, i) ==
    IF isalnum(At(s, i)) \/ At(s, i) = "_" THEN SymEnd(s, i + 1) ELSE i

\* struct token, with the index i that next_token leaves behind
Token(type, offset, val, op, sym, i) ==
    [type |-> type, offset |-> offset, val |-> val, op |-> op, sym |-> sym,
     i |-> i]

\* next_token: type "THROW" stands for the exception "Unrecognized token"
\* and type "PAST_END" for a read past the end of the string
next_token(s, i0) ==
    LET i  == SkipBlank(s, i0)
        ch == At(s, i)
    IN IF ch = NUL THEN Token("TOK_EOF", i, FALSE, "", <<>>, i)
       ELSE IF ch = "\\" /\ At(s, i + 1) \in {"T", "F"}
       THEN Token("TOK_CONST", i, At(s, i + 1) = "T", "", <<>>, i + 2)
       ELSE IF ch = "["
       THEN LET j == FindClose(s, i + 1)
            IN IF j < 0 THEN Token("PAST_END", i, FALSE, "", <<>>, i)
               ELSE Token("TOK_VAR", i, FALSE, "", SubSeq(s, i + 2, j), j + 1)
       ELSE IF isalnum(ch)
       THEN LET j == SymEnd(s, i + 1)
            IN Token("TOK_VAR", i, FALSE, "", SubSeq(s, i + 1, j), j)
       ELSE IF ch \in {"(", ")"}
       THEN Token("TOK_PAREN", i, ch = "(", "", <<>>, i + 1)
       ELSE IF ch = "~" THEN Token("TOK_OP", i, FALSE, "Not", <<>>, i + 1)
       ELSE IF ch = "&" THEN Token("TOK_OP", i, FALSE, "And", <<>>, i + 1)
       ELSE IF ch = "|" THEN Token("TOK_OP", i, FALSE, "Or", <<>>, i + 1)
       ELSE IF ch = "^" THEN Token("TOK_OP", i, FALSE, "Xor", <<>>, i + 1)
       ELSE IF ch = ">" THEN Token("TOK_OP", i, FALSE, "Impl", <<>>, i + 1)
       ELSE IF ch = "-" /\ At(s, i + 1) = ">"
       THEN Token("TOK_OP", i, FALSE, "Impl", <<>>, i + 2)
       ELSE IF ch = "=" THEN Token("TOK_OP", i, FALSE, "Eqv", <<>>, i + 1)
       ELSE IF ch = "<" /\ At(s, i + 1) = "-" /\ At(s, i + 2) = ">"
       THEN Token("TOK_OP", i, FALSE, "Eqv", <<>>, i + 3)
       ELSE Token("THROW", i, FALSE, "", <<>>, i)

is_opening_paren(tok) == tok.type = "TOK_PAREN" /\ tok.val
is_unary(tok)  == tok.type = "TOK_OP" /\ Arity(make_op(tok.op)) = 1
is_binary(tok) == tok.type = "TOK_OP" /\ Arity(make_op(tok.op)) = 2

(***************************************************************************)
(* The parser (formula.cpp, reduce and parse).  astdq is the deque of      *)
(* pairs (preorder traversal, token), ops the operator stack with its top  *)
(* at the end.  The outcome of parse is a record: status "ok" with the     *)
(* preorder vector pn, or status "error" with the message and offset of    *)
(* the X::Formula::Parser exception, or status "undefined" when the        *)
(* tokenizer read past the end of the string; d is the Domain afterwards.  *)
(***************************************************************************)
Parsed(pn, d)          == [status |-> "ok", what |-> "", offset |-> 0,
                           pn |-> pn, d |-> d]
ParserX(what, offset, d) == [status |-> "error", what |-> what,
                             offset |-> offset, pn |-> <<>>, d |-> d]
Undefined(d)           == [status |-> "undefined", what |-> "", offset |-> 0,
                           pn |-> <<>>, d |-> d]

\* reduce: the deque afterwards, or thrown for "Missing operands"
reduce(tok, astdq) ==
    IF is_opening_paren(tok) THEN [thrown |-> FALSE, astdq |-> astdq]
    ELSE IF Len(astdq) < Arity(make_op(tok.op))
    THEN [thrown |-> TRUE, astdq |-> astdq]
    ELSE LET rhs  == Back(astdq).first
             dq1  == PopBack(astdq)
             lhs  == IF is_binary(tok) THEN Back(dq1).first ELSE <<>>
             dq2  == IF is_binary(tok) THEN PopBack(dq1) ELSE dq1
             op   == <<make_op(tok.op)>> \o lhs \o rhs
         IN [thrown |-> FALSE,
             astdq  |-> Append(dq2, [first |-> op, second |-> tok])]

\* the comparison of precedences that ends the reduction of stacked operators
StrictlyLower(opprec, tokprec) == opprec < tokprec

NotHigher(opprec, tokprec) == opprec <= tokprec

\* case TOK_OP: "while (!ops.empty())" reducing the operators on the stack
\* that bind tighter than tok
RECURSIVE ReduceTighter(_, _, _)
ReduceTighter(tok, ops, astdq) ==
    IF Len(ops) = 0 THEN [thrown |-> FALSE, ops |-> ops, astdq |-> astdq,
                          offset |-> 0]
    ELSE LET op == Back(ops) IN
         IF \/ is_opening_paren(op)
            \/ NotHigher(Prec(make_op(op.op)), Prec(make_op(tok.op)))
         THEN [thrown |-> FALSE, ops |-> ops, astdq |-> astdq, offset |-> 0]
         ELSE LET r == reduce(op, astdq)
              IN IF r.thrown
                 THEN [thrown |-> TRUE, ops |-> PopBack(ops),
                       astdq |-> astdq, offset |-> op.offset]
                 ELSE ReduceTighter(tok, PopBack(ops), r.astdq)

\* closing parenthesis: "do ... while (!is_opening_paren(op))"
RECURSIVE ReduceToParen(_, _, _)
ReduceToParen(tok, ops, astdq) ==
    IF Len(ops) = 0
    THEN [thrown |-> TRUE, what |-> "Missing opening parenthesis",
          offset |-> tok.offset, ops |-> ops, astdq |-> astdq]
    ELSE LET op == Back(ops)
             r  == reduce(op, astdq)
         IN IF r.thrown
            THEN [thrown |-> TRUE, what |-> "Missing operands",
                  offset |-> op.offset, ops |-> PopBack(ops), astdq |-> astdq]
            ELSE IF is_opening_paren(op)
            THEN [thrown |-> FALSE, what |-> "", offset |-> 0,
                  ops |-> PopBack(ops), astdq |-> r.astdq]
            ELSE ReduceToParen(tok, PopBack(ops), r.astdq)

\* after the token loop: "while (!ops.empty())" and the switch on astdq.size()
RECURSIVE Finish(_, _, _, _)
Finish(ops, astdq, i, d) ==
    IF Len(ops) > 0
    THEN LET op == Back(ops) IN
         IF is_opening_paren(op)
         THEN ParserX("Missing closing parenthesis", op.offset, d)
         ELSE LET r == reduce(op, astdq)
              IN IF r.thrown THEN ParserX("Missing operands", op.offset, d)
                 ELSE Finish(PopBack(ops), r.astdq, i, d)
    ELSE IF Len(astdq) = 0
    THEN ParserX("No operands left after reduction", i, d)
    ELSE IF Len(astdq) = 1 THEN Parsed(astdq[1].first, d)
    ELSE ParserX("Excess operands after reduction", astdq[1].second.offset, d)

\* an expectation that never changes
toggle_never(next) == next

toggle_expect(next) ==
    IF next = "EXPECT_TERM" THEN "EXPECT_INFIX" ELSE "EXPECT_TERM"

\* the exception of check_expect(want) when next differs from want
Unexpected(want, tok, d) ==
    IF want = "EXPECT_TERM"
    THEN ParserX("Infix expected but got term", tok.offset, d)
    ELSE ParserX("Term expected but got infix", tok.offset, d)

\* parse: "while (next_token(s, i, tok))" and what follows it
RECURSIVE parseLoop(_, _, _, _, _, _)
parseLoop(s, i, astdq, ops, next, d) ==
    LET tok == next_token(s, i) IN
    CASE tok.type = "PAST_END" -> Undefined(d)
      [] tok.type = "THROW" -> ParserX("Unrecognized token", tok.offset, d)
      [] tok.type = "TOK_EOF" ->
           IF next = "EXPECT_TERM"
           THEN ParserX("Term expected but EOF reached", tok.i, d)
           ELSE Finish(ops, astdq, tok.i, d)
      [] tok.type = "TOK_CONST" ->
           IF next # "EXPECT_TERM" THEN Unexpected("EXPECT_TERM", tok, d)
           ELSE parseLoop(s, tok.i,
                   Append(astdq, [first  |-> <<make_const(tok.val)>>,
                                  second |-> tok]),
                   ops, toggle_expect(next), d)
      [] tok.type = "TOK_VAR" ->
           IF next # "EXPECT_TERM" THEN Unexpected("EXPECT_TERM", tok, d)
           ELSE LET r == resolve(d, tok.sym) IN
                IF r.thrown # "none" THEN [Undefined(d) EXCEPT !.status = r.thrown]
                ELSE LET nr == Pack(r.d, r.ret)
                     IN parseLoop(s, tok.i,
                           Append(astdq, [first  |-> <<make_var(nr.ret)>>,
                                          second |-> tok]),
                           ops, toggle_expect(next), nr.d)
      [] tok.type = "TOK_OP" ->
           LET want == IF is_unary(tok) THEN "EXPECT_TERM" ELSE "EXPECT_INFIX" IN
           IF next # want THEN Unexpected(want, tok, d)
           ELSE LET r == ReduceTighter(tok, ops, astdq) IN
                IF r.thrown THEN ParserX("Missing operands", r.offset, d)
                ELSE parseLoop(s, tok.i, r.astdq, Append(r.ops, tok),
                        IF is_binary(tok) THEN toggle_expect(next) ELSE next, d)
      [] tok.type = "TOK_PAREN" ->
           IF is_opening_paren(tok)
           THEN IF next # "EXPECT_TERM" THEN Unexpected("EXPECT_TERM", tok, d)
                ELSE parseLoop(s, tok.i, astdq, Append(ops, tok), next, d)
           ELSE IF next = "EXPECT_TERM"
           THEN ParserX("Term expected when encountering closing parenthesis",
                        tok.offset, d)
           ELSE LET r == ReduceToParen(tok, ops, astdq) IN
                IF r.thrown THEN ParserX(r.what, r.offset, d)
                ELSE parseLoop(s, tok.i, r.astdq, r.ops, next, d)

\* a parse that starts out expecting an infix
parse_infix_first(s, d) == parseLoop(s, 0, <<>>, <<>>, "EXPECT_INFIX", d)

parse(s, d) == parseLoop(s, 0, <<>>, <<>>, "EXPECT_TERM", d)

(***************************************************************************)
(* Stringification (formula.hpp to_string, formula.cpp to_postfix and      *)
(* to_infix): one pass over the preorder vector from its end with a stack  *)
(* of strings.                                                             *)
(***************************************************************************)
\* the symbol an operator node is written with
Symbol(type) ==
    CASE type = "Not"  -> "~"
      [] type = "And"  -> "&"
      [] type = "Or"   -> "|"
      [] type = "Impl" -> ">"
      [] type = "Eqv"  -> "="
      [] type = "Xor"  -> "^"

\* Formula::to_string(Ast)
ast_to_string(ast, d) ==
    CASE ast.type = "Var" ->
           <<"[">> \o NameOf(d, Unpack(d, ast.var).ret) \o <<"]">>
      [] ast.type = "Const" ->
           IF ast.value THEN <<"\\", "T">> ELSE <<"\\", "F">>
      [] OTHER -> <<Symbol(ast.type)>>

RECURSIVE postfixLoop(_, _, _, _)
postfixLoop(pn, d, i, terms) ==
    IF i = 0 THEN terms[1]
    ELSE LET ast == pn[i] IN
         CASE Arity(ast) = 0 ->
                postfixLoop(pn, d, i - 1, Append(terms, ast_to_string(ast, d)))
           [] Arity(ast) = 1 ->
                postfixLoop(pn, d, i - 1,
                   SetBack(terms, Back(terms) \o <<" ">> \o ast_to_string(ast, d)))
           [] OTHER ->
                LET lhs  == Back(terms)
                    rest == PopBack(terms)
                IN postfixLoop(pn, d, i - 1,
                      SetBack(rest, lhs \o <<" ">> \o Back(rest) \o <<" ">>
                                    \o ast_to_string(ast, d)))

to_postfix(pn, d) == postfixLoop(pn, d, Len(pn), <<>>)

\* "(" + s + ")" if the operand binds looser than the operator
Parenthesized(opr, ast, str) ==
    IF Prec(opr) < Prec(ast) THEN <<"(">> \o str \o <<")">> ELSE str

RECURSIVE infixLoop(_, _, _, _)
infixLoop(pn, d, i, terms) ==
    IF i = 0 THEN terms[1].second
    ELSE LET ast == pn[i] IN
         CASE Arity(ast) = 0 ->
                infixLoop(pn, d, i - 1,
                   Append(terms, [first |-> ast, second |-> ast_to_string(ast, d)]))
           [] Arity(ast) = 1 ->
                LET rhs == Parenthesized(Back(terms).first, ast, Back(terms).second)
                IN infixLoop(pn, d, i - 1,
                      SetBack(terms, [first  |-> ast,
                                      second |-> ast_to_string(ast, d) \o rhs]))
           [] OTHER ->
                LET l    == Back(terms)
                    rest == PopBack(terms)
                    r    == Back(rest)
                    lhs  == Parenthesized(l.first, ast, l.second)
                    rhs  == Parenthesized(r.first, ast, r.second)
                IN infixLoop(pn, d, i - 1,
                      SetBack(rest, [first  |-> ast,
                                     second |-> lhs \o <<" ">>
                                                \o ast_to_string(ast, d)
                                                \o <<" ">> \o rhs]))

to_infix(pn, d) == infixLoop(pn, d, Len(pn), <<>>)

(***************************************************************************)
(* The inputs of the parser: a formula written out as a text, with         *)
(* parentheses either only where the grammar needs them (around an operand *)
(* that binds looser than its operator, and around a left operand that     *)
(* binds as tight as its operator) or around every compound operand, and   *)
(* with either spelling of the implication and equivalence signs.          *)
(***************************************************************************)
Styles    == {"minimal", "full"}
Spellings == {"short", "long"}

Spelled(type, spelling) ==
    IF spelling = "long" /\ type = "Impl" THEN <<"-", ">">>
    ELSE IF spelling = "long" /\ type = "Eqv" THEN <<"<", "-", ">">>
    ELSE <<Symbol(type)>>

RECURSIVE Written(_, _, _)
Written(pn, style, spelling) ==
    LET ast == pn[1]
        Operand(sub, left) ==
            LET str == Written(sub, style, spelling)
            IN IF \/ style = "full" /\ Arity(sub[1]) > 0
                  \/ Prec(sub[1]) < Prec(ast)
                  \/ left /\ Prec(sub[1]) = Prec(ast)
               THEN <<"(">> \o str \o <<")">>
               ELSE str
    IN CASE ast.type = "Const" ->
              IF ast.value THEN <<"\\", "T">> ELSE <<"\\", "F">>
         [] ast.type = "Var" -> unpack(ast.var)
         [] ast.type = "Not" -> <<"~">> \o Operand(Rhs(pn), FALSE)
         [] OTHER ->
              Operand(Lhs(pn), TRUE) \o <<" ">> \o Spelled(ast.type, spelling)
              \o <<" ">> \o Operand(Rhs(pn), FALSE)

\* the Cache in which exactly the names of Names have been resolved, in order
RECURSIVE Interned(_, _)
Interned(names, d) ==
    IF names = <<>> THEN d
    ELSE Interned(Tail(names), resolve(d, Head(names)).d)

NamesCache == Interned(Names, NewCache)

(***************************************************************************)
(* Each specification below exercises one part of the library; the parts   *)
(* of the state it does not use keep the values given here.                *)
(***************************************************************************)
IdleStreams ==
    cnf = NoCnf /\ ts = NoTseitin /\ tt = NoAssignment /\ st = NoStream
IdleThreads == threads = <<>> /\ lock = {}
IdleCall    == arg = NoAssignment /\ ret = NoRet
IdleParser  == text = <<>> /\ domain = NewCache

(***************************************************************************)
(* Specification of the CNF stream: a formula is drawn, the stream is      *)
(* constructed and read to its end.                                        *)
(***************************************************************************)
CnfInit ==
    /\ fm \in Formulas
    /\ pc = "start"
    /\ received = <<>>
    /\ cnf = NoCnf
    /\ st = NoStream
    /\ ts = NoTseitin
    /\ tt = NoAssignment
    /\ IdleCall
    /\ IdleParser
    /\ IdleThreads

\* CNF cnf(fm), and the consumer reads the first clause if there is one
CnfConstruct ==
    /\ pc = "start"
    /\ cnf' = CnfNew(fm)
    /\ pc' = IF cnf'.thrown THEN "thrown"
             ELSE IF exhausted(cnf') THEN "done" ELSE "valid"
    /\ received' = IF pc' = "valid" THEN Append(received, cnf'.cl) ELSE received
    /\ UNCHANGED <<fm, st, ts, tt, arg, ret, text, domain, threads, lock>>

\* ++cnf, and the consumer reads the next clause if there is one
CnfIncrement ==
    /\ pc = "valid"
    /\ cnf' = CnfAdvance(fm, cnf)
    /\ pc' = IF cnf'.thrown THEN "thrown"
             ELSE IF exhausted(cnf') THEN "done" ELSE "valid"
    /\ received' = IF pc' = "valid" THEN Append(received, cnf'.cl) ELSE received
    /\ UNCHANGED <<fm, st, ts, tt, arg, ret, text, domain, threads, lock>>

CnfNext == CnfConstruct \/ CnfIncrement

SpecCNF == CnfInit /\ [][CnfNext]_vars_all

\* C1: the CNF stream of a formula ends without an exception, and the
\* conjunction of its clauses has the truth value of the formula under every
\* total assignment of the formula's variables.
CnfEquivalent ==
    /\ pc # "thrown"
    /\ pc = "done" =>
         \A a \in TotalAssignments(vars(fm)) :
            eval(fm, a).value =
               (\A i \in 1..Len(received) : clause_eval(received[i], a))

\* the assignments over the variables of s under which s is false
Falsifying(s) == {a \in TotalAssignments(vars(s)) : ~eval(s, a).value}

\* the number of clauses that the subtrees of a queue stand for
RECURSIVE ClausesDue(_)
ClausesDue(queue) ==
    IF queue = <<>> THEN 0
    ELSE Cardinality(Falsifying(Head(queue))) + ClausesDue(Tail(queue))

\* C26: advancing the CNF stream raises no error; the clause it stops at is
\* the bit-wise negation of an assignment over the variables of the subtree
\* s being expanded under which s is false, and the stream read to its end
\* has yielded one clause for every such assignment of every queued subtree.
CnfExpandsSubtrees ==
    /\ ~cnf.thrown
    /\ pc = "valid" =>
          /\ cnf.current # Null
          /\ cnf.last.order = vars(cnf.current)
          /\ ~eval(cnf.current, cnf.last).value
          /\ cnf.cl.order = cnf.last.order
          /\ \A v \in Range(cnf.last.order) :
                cnf.cl.vmap[v] = ~cnf.last.vmap[v]
    /\ pc = "done" => Len(received) = ClausesDue(SplitFront(<<fm>>))

\* C27: once a CNF stream has been constructed, neither the subtree being
\* expanded nor a subtree in the queue has an And node at its root.
CnfQueueSplit ==
    (pc # "start" /\ ~cnf.thrown) =>
       /\ cnf.current # Null => cnf.current[1].type # "And"
       /\ \A i \in 1..Len(cnf.queue) : cnf.queue[i][1].type # "And"

(***************************************************************************)
(* Specification of the Tseitin stream: a formula is drawn, the stream is  *)
(* constructed and read to its end.                                        *)
(***************************************************************************)
TseitinInit ==
    /\ fm \in Formulas
    /\ pc = "start"
    /\ received = <<>>
    /\ cnf = NoCnf
    /\ st = NoStream
    /\ ts = NoTseitin
    /\ tt = NoAssignment
    /\ IdleCall
    /\ IdleParser
    /\ IdleThreads

\* Tseitin tseitin(fm), and the consumer reads the first clause
TseitinConstruct ==
    /\ pc = "start"
    /\ ts' = TseitinNew(fm)
    /\ pc' = IF ts'.valid THEN "valid" ELSE "done"
    /\ received' = IF ts'.valid THEN Append(received, ts'.last) ELSE received
    /\ UNCHANGED <<fm, cnf, st, tt, arg, ret, text, domain, threads, lock>>

\* ++tseitin, and the consumer reads the next clause if there is one
TseitinIncrement ==
    /\ pc = "valid"
    /\ ts' = TseitinAdvance(ts)
    /\ pc' = IF ts'.valid THEN "valid" ELSE "done"
    /\ received' = IF ts'.valid THEN Append(received, ts'.last) ELSE received
    /\ UNCHANGED <<fm, cnf, st, tt, arg, ret, text, domain, threads, lock>>

TseitinNext == TseitinConstruct \/ TseitinIncrement

SpecTseitin == TseitinInit /\ [][TseitinNext]_vars_all

\* every assignment on all variables of the Tseitin domain
TseitinAssignments == TotalAssignments(TseitinList(ts))

\* C2: once the Tseitin stream of F has been read to its end, every
\* assignment L on the Tseitin domain that is consistent (the lift of its
\* projection) satisfies all clauses exactly when F is true under the
\* projection of L, and every inconsistent L falsifies some clause.
TseitinEquisatisfiable ==
    pc = "done" =>
      \A L \in TseitinAssignments :
         LET A == project(ts, fm, L)
             all == \A i \in 1..Len(received) : clause_eval(received[i], L)
         IN IF lift(ts, A) = L
            THEN all = eval(fm, A).value
            ELSE ~all

\* a stream read to its end for a formula with a binary node whose operands
\* are the same subformula, and for which inconsistent assignments exist
TseitinWitness ==
    /\ pc = "done"
    /\ Len(received) >= 6
    /\ \E i \in 1..Len(ts.astcache) :
          /\ Arity(ts.astcache[i][1]) = 2
          /\ Lhs(ts.astcache[i]) = Rhs(ts.astcache[i])
    /\ \E L \in TseitinAssignments : lift(ts, project(ts, fm, L)) # L
    /\ \E L \in TseitinAssignments :
          /\ lift(ts, project(ts, fm, L)) = L
          /\ eval(fm, project(ts, fm, L)).value

\* the invariant of a VarMap: the variables with a value are the variables
\* of the order, each of them once
VarMapInvariant(vm) ==
    /\ Range(vm.order) = DOMAIN vm.vmap
    /\ \A i, j \in 1..Len(vm.order) : vm.order[i] = vm.order[j] => i = j

\* C22: in every clause that the Tseitin stream yields, each variable with
\* a value appears exactly once in the ordered variable list and the list
\* holds no other variable, also for a binary node whose two children are
\* the same subformula.
ClausesHoldVariablesOnce ==
    \A k \in 1..Len(received) : VarMapInvariant(received[k])

\* the subformulas of a formula
Subformulas(pn) == {materialize(pn, i) : i \in 1..Len(pn)}

\* C23: within one Tseitin stream two variables of the Tseitin domain stand
\* for subformulas that are structurally equal only if they are the same
\* variable, every variable stands for a subformula of F, and once the
\* stream is exhausted every subformula of F has a variable: two nodes have
\* the same variable exactly when their subformulas are equal.
TseitinSharing ==
    /\ \A i, j \in 1..Len(ts.astcache) :
          equals(ts.astcache[i], ts.astcache[j]) <=> i = j
    /\ \A i \in 1..Len(ts.astcache) : ts.astcache[i] \in Subformulas(fm)
    /\ pc = "done" =>
          /\ Range(ts.astcache) = Subformulas(fm)
          /\ Len(ts.astcache) = Cardinality(Subformulas(fm))
          /\ \A x, y \in Subformulas(fm) :
                got(ts.astcache, x) = got(ts.astcache, y) <=> equals(x, y)

\* a stream read to its end for a formula with a subformula that occurs
\* twice and two different subformulas besides
SharingWitness ==
    /\ pc = "done"
    /\ Len(fm) > Len(ts.astcache)
    /\ Len(ts.astcache) >= 3

(***************************************************************************)
(* Specification of simplification: a formula is drawn, simplified under   *)
(* a partial assignment, and the result is evaluated under an assignment   *)
(* of the variables left open.                                             *)
(***************************************************************************)
SimplifyInit ==
    /\ fm \in Formulas
    /\ pc = "start"
    /\ received = <<>>
    /\ cnf = NoCnf
    /\ st = NoStream
    /\ ts = NoTseitin
    /\ tt = NoAssignment
    /\ IdleCall
    /\ IdleParser
    /\ IdleThreads

\* g = fm.simplify(a)
Simplify ==
    /\ pc = "start"
    /\ \E a \in PartialAssignments :
          /\ arg' = a
          /\ ret' = [call |-> "simplify", formula |-> simplify(fm, a)]
    /\ pc' = "simplified"
    /\ UNCHANGED <<fm, received, cnf, st, ts, tt, text, domain, threads, lock>>

\* g.eval(b)
EvalSimplified ==
    /\ pc = "simplified"
    /\ \E b \in Extensions(arg) :
          ret' = [call |-> "eval", formula |-> ret.formula, ext |-> b,
                  result |-> eval(ret.formula, b)]
    /\ pc' = "evaluated"
    /\ UNCHANGED <<fm, received, cnf, st, ts, tt, arg, text, domain, threads, lock>>

SimplifyNext == Simplify \/ EvalSimplified

SpecSimplify == SimplifyInit /\ [][SimplifyNext]_vars_all

\* C3: the simplification of F under a partial assignment a, evaluated under
\* an assignment b of the remaining variables, has the value of F under a
\* and b together.
SimplifyPreservesMeaning ==
    pc = "evaluated" => ret.result = eval(fm, Union(arg, ret.ext))

\* C24: the simplification of F under a is a single constant node, or it
\* holds no constant node and no variable that a assigns.
SimplifiedShape ==
    pc = "simplified" =>
       LET g == ret.formula
       IN \/ Len(g) = 1 /\ g[1].type = "Const"
          \/ \A i \in 1..Len(g) :
                /\ g[i].type # "Const"
                /\ g[i].type = "Var" => unpack(g[i].var) \notin DOMAIN arg.vmap

\* a formula with a constant and an assigned variable whose simplification
\* is no constant
SimplifiedWitness ==
    /\ pc = "simplified"
    /\ ret.formula[1].type # "Const"
    /\ \E i \in 1..Len(fm) : fm[i].type = "Const"
    /\ \E i \in 1..Len(fm) :
          fm[i].type = "Var" /\ unpack(fm[i].var) \in DOMAIN arg.vmap

(***************************************************************************)
(* Specification of the parser and printer: a formula is written out as a  *)
(* text, the text is parsed, the parsed formula is printed in infix form   *)
(* and the print is parsed again.                                          *)
(***************************************************************************)
ParserInit ==
    /\ fm \in Formulas
    /\ pc = "start"
    /\ received = <<>>
    /\ IdleStreams
    /\ IdleCall
    /\ text = <<>>
    /\ domain = NamesCache
    /\ IdleThreads

\* the caller writes the formula down
Write ==
    /\ pc = "start"
    /\ \E style \in Styles, spelling \in Spellings :
          text' = Written(fm, style, spelling)
    /\ pc' = "written"
    /\ UNCHANGED <<fm, received, cnf, st, ts, tt, arg, ret, domain, threads, lock>>

\* Formula(text, &domain)
Parse ==
    /\ pc \in {"written", "printed"}
    /\ LET r == parse(text, domain)
       IN /\ received' = Append(received, [status |-> r.status,
                                           what   |-> r.what,
                                           offset |-> r.offset,
                                           pn     |-> r.pn])
          /\ domain' = r.d
    /\ pc' = IF pc = "written" THEN "parsed" ELSE "reparsed"
    /\ UNCHANGED <<fm, cnf, st, ts, tt, arg, ret, text, threads, lock>>

\* text = F.to_infix() for the formula F parsed last
ToInfix ==
    /\ pc = "parsed"
    /\ received[1].status = "ok"
    /\ text' = to_infix(received[1].pn, domain)
    /\ pc' = "printed"
    /\ UNCHANGED <<fm, received, cnf, st, ts, tt, arg, ret, domain, threads, lock>>

ParserNext == Write \/ Parse \/ ToInfix

SpecParser == ParserInit /\ [][ParserNext]_vars_all

\* the characters of the texts named in the claims
Chars_a_impl_b_impl_c == <<"a", " ", "-", ">", " ", "b", " ", "-", ">", " ", "c">>
Chars_a_xor_b_eqv_c   == <<"a", " ", "^", " ", "b", " ", "=", " ", "c">>
Postfix_abc_impl_impl == <<"[", "a", "]", " ", "[", "b", "]", " ",
                           "[", "c", "]", " ", ">", " ", ">">>
Postfix_abc_eqv_xor   == <<"[", "a", "]", " ", "[", "b", "]", " ",
                           "[", "c", "]", " ", "=", " ", "^">>

\* C4: parsing the infix print of a parsed formula gives a formula with the
\* same postfix string as the parsed formula.
InfixRoundTrip ==
    pc = "reparsed" =>
       /\ received[2].status = "ok"
       /\ to_postfix(received[2].pn, domain) = to_postfix(received[1].pn, domain)

\* C5: a text written with parentheses only where an operand binds looser
\* than its operator, or is a left operand binding as tight as its operator,
\* (or with more parentheses) parses to the very formula written: ~ binds
\* tighter than &, & than |, | than ->, -> than <-> and ^, and operators of
\* equal precedence nest to the right.
PrecedenceAndAssociativity ==
    Len(received) >= 1 =>
       /\ received[1].status = "ok"
       /\ received[1].pn = fm
       /\ text = Chars_a_impl_b_impl_c /\ pc = "parsed" =>
             to_postfix(received[1].pn, domain) = Postfix_abc_impl_impl
       /\ text = Chars_a_xor_b_eqv_c /\ pc = "parsed" =>
             to_postfix(received[1].pn, domain) = Postfix_abc_eqv_xor

\* the text "a ^ b = c" has been parsed
PrecedenceWitness ==
    /\ pc = "parsed"
    /\ text = Chars_a_xor_b_eqv_c
    /\ received[1].status = "ok"
    /\ to_postfix(received[1].pn, domain) = Postfix_abc_eqv_xor

(***************************************************************************)
(* Specification of the Cache used by one thread: any sequence of calls    *)
(* of resolve, unpack, pack, list, size, freeze and thaw on a Cache that   *)
(* starts empty.  ret records the last call, its argument, the exception   *)
(* that left it and the value it returned.                                 *)
(***************************************************************************)
\* the names resolved; "2" is also the name unpack gives to variable 2
DomainNames == { <<"a">>, <<"b">>, <<"2">> }

\* a VarRef that does not point into the Cache under test
Foreign == 0

Call(call, name, nr, var, r) ==
    [call |-> call, name |-> name, nr |-> nr, var |-> var,
     thrown |-> r.thrown, value |-> r.ret, listed |-> <<>>]

NoCall == Call("none", <<>>, 0, 0, Returned(NewCache, 0))

DomainInit ==
    /\ fm = <<>>
    /\ pc = "idle"
    /\ received = <<>>
    /\ IdleStreams
    /\ arg = NoAssignment
    /\ ret = NoCall
    /\ text = <<>>
    /\ domain = NewCache
    /\ IdleThreads

DomainRest == <<fm, pc, received, cnf, st, ts, tt, arg, text, threads, lock>>

\* domain.resolve(name)
Resolve ==
    /\ \E name \in DomainNames :
          /\ \/ size(domain) < MaxVars
             \/ name \in DOMAIN domain.by_name
             \/ domain.frozen
          /\ LET r == resolve(domain, name)
             IN /\ domain' = r.d
                /\ ret' = Call("resolve", name, 0, 0, r)
    /\ UNCHANGED DomainRest

\* domain.unpack(nr)
UnpackNr ==
    /\ \E nr \in 0..MaxVars :
          LET r == Unpack(domain, nr)
          IN /\ domain' = r.d
             /\ ret' = Call("unpack", <<>>, nr, 0, r)
    /\ UNCHANGED DomainRest

\* domain.pack(var)
PackRef ==
    /\ \E var \in (1..size(domain)) \cup {Foreign} :
          LET r == Pack(domain, var)
          IN /\ domain' = r.d
             /\ ret' = Call("pack", <<>>, 0, var, r)
    /\ UNCHANGED DomainRest

\* domain.list()
List ==
    /\ ret' = [NoCall EXCEPT !.call = "list", !.listed = list(domain)]
    /\ UNCHANGED <<domain, DomainRest>>

\* domain.size()
Size ==
    /\ ret' = [NoCall EXCEPT !.call = "size", !.value = size(domain)]
    /\ UNCHANGED <<domain, DomainRest>>

\* domain.freeze()
Freeze ==
    /\ domain' = freeze(domain)
    /\ ret' = [NoCall EXCEPT !.call = "freeze"]
    /\ UNCHANGED DomainRest

\* domain.thaw()
Thaw ==
    /\ domain' = thaw(domain)
    /\ ret' = [NoCall EXCEPT !.call = "thaw"]
    /\ UNCHANGED DomainRest

DomainNext ==
    Resolve \/ UnpackNr \/ PackRef \/ List \/ Size \/ Freeze \/ Thaw

SpecDomain == DomainInit /\ [][DomainNext]_vars_all

\* the variables a Cache has allocated
Allocated(d) == 1..size(d)

\* the VarNr bijection of a Cache
Bijection(d) ==
    /\ {Pack(d, v).ret : v \in Allocated(d)} = 1..size(d)
    /\ \A n \in 1..size(d) : Pack(d, Unpack(d, n).ret).ret = n
    /\ \A v \in Allocated(d) : Unpack(d, Pack(d, v).ret).ret = v
    /\ Len(list(d)) = size(d)
    /\ \A i \in 1..Len(list(d)) : Pack(d, list(d)[i]).ret = i

\* C6: in every reachable state of a Cache the VarNrs in use are exactly
\* 1..size(), pack and unpack are inverse to each other on them and on the
\* allocated variables, and list() enumerates the variables by ascending VarNr.
DomainBijection == Bijection(domain)

\* a full Cache that resolve and unpack have both allocated in, unpack last
BijectionWitness ==
    /\ size(domain) = MaxVars
    /\ \E v \in Allocated(domain) : NameOf(domain, v) = <<"a">>
    /\ \E v \in Allocated(domain) : NameOf(domain, v) = <<"1">>
    /\ ret.call = "unpack" /\ ret.thrown = "none" /\ ret.nr = MaxVars

\* C8: on a frozen Cache, resolve of a name not yet interned and unpack
\* beyond size() raise Frozen and leave the Cache as it was, resolve of a
\* known name and unpack of 1..size() succeed, and after thaw() a call that
\* must allocate succeeds.
FrozenDomain ==
    [][LET frozen   == domain.frozen \/ ret.call = "freeze"
           resolved == ret'.call = "resolve"
           unpacked == ret'.call = "unpack"
           known    == ret'.name \in DOMAIN domain.by_name
           inrange  == ret'.nr \in 1..size(domain)
           beyond   == ret'.nr > size(domain)
       IN /\ resolved /\ frozen /\ ~known =>
                ret'.thrown = "Frozen" /\ domain' = domain
          /\ unpacked /\ frozen /\ beyond =>
                ret'.thrown = "Frozen" /\ domain' = domain
          /\ resolved /\ frozen /\ known =>
                /\ ret'.thrown = "none"
                /\ ret'.value = domain.by_name[ret'.name]
                /\ domain' = domain
          /\ unpacked /\ frozen /\ inrange =>
                /\ ret'.thrown = "none"
                /\ ret'.value = domain.by_nr[ret'.nr]
                /\ domain' = domain
          /\ ret'.call = "thaw" => ~domain'.frozen
          /\ resolved /\ ret.call = "thaw" /\ ~known =>
                /\ ret'.thrown = "none"
                /\ size(domain') = size(domain) + 1
                /\ NameOf(domain', ret'.value) = ret'.name
          /\ unpacked /\ ret.call = "thaw" /\ beyond =>
                /\ ret'.thrown = "none"
                /\ size(domain') = ret'.nr
      ]_vars_all

\* a frozen Cache holding variables has just refused to allocate
FrozenWitness ==
    /\ domain.frozen
    /\ size(domain) >= 1
    /\ ret.call \in {"resolve", "unpack"}
    /\ ret.thrown = "Frozen"

\* the decimal representation of the VarNrs in reach
Decimal == <<<<"1">>, <<"2">>, <<"3">>, <<"4">>, <<"5">>>>

\* C17: unpack(0) raises InvalidVarNr and changes nothing; unpack(n) for
\* 1 <= n <= size() returns the n-th variable and changes nothing; unpack(n)
\* for n > size() on a thawed Cache allocates exactly the variables
\* size()+1..n, each named by the decimal representation of its VarNr, so
\* that size() = n afterwards and the earlier variables keep their VarNr.
UnpackContract ==
    [][ret'.call = "unpack" =>
         LET n == ret'.nr
             d == domain
             e == domain'
         IN /\ n = 0 => ret'.thrown = "InvalidVarNr" /\ e = d
            /\ n \in 1..size(d) =>
                  /\ ret'.thrown = "none"
                  /\ ret'.value = list(d)[n]
                  /\ e = d
            /\ (n > size(d) /\ ~d.frozen) =>
                  /\ ret'.thrown = "none"
                  /\ size(e) = n
                  /\ Len(list(e)) = n
                  /\ ret'.value = list(e)[n]
                  /\ \A k \in (size(d) + 1)..n :
                        /\ NameOf(e, list(e)[k]) = Decimal[k]
                        /\ list(e)[k] \notin Allocated(d)
                        /\ Pack(e, list(e)[k]).ret = k
                  /\ \A k \in 1..size(d) : list(e)[k] = list(d)[k]
                  /\ \A v \in Allocated(d) :
                        /\ Pack(e, v).ret = Pack(d, v).ret
                        /\ NameOf(e, v) = NameOf(d, v)
                  /\ e.frozen = d.frozen
      ]_vars_all

\* unpack(MaxVars) has allocated after a resolve
UnpackWitness ==
    /\ ret.call = "unpack" /\ ret.thrown = "none" /\ ret.nr = MaxVars
    /\ size(domain) = MaxVars
    /\ NameOf(domain, 1) = <<"b">>
    /\ NameOf(domain, MaxVars) = Decimal[MaxVars]

\* C18: the name of a variable identifies it in its Cache: no two of the
\* variables of list() carry the same name, and resolve of the name of an
\* allocated variable returns that variable.
UniqueNames ==
    /\ \A i, j \in 1..Len(list(domain)) :
          NameOf(domain, list(domain)[i]) = NameOf(domain, list(domain)[j])
             => i = j
    /\ \A v \in Allocated(domain) :
          LET r == resolve(domain, NameOf(domain, v))
          IN r.thrown = "none" /\ r.ret = v

\* C19: pack returns a VarNr of at least 1 for every VarRef it is given,
\* whether the Cache is frozen or not.
PackPositive ==
    ret.call = "pack" => (ret.thrown = "none" /\ ret.value >= 1)

\* C20: no call of resolve, unpack, pack, list, size, freeze or thaw changes
\* the VarNr, the handle or the position in list() of a variable allocated
\* before it, and size() never decreases.
StableOrdering ==
    [][/\ size(domain') >= size(domain)
       /\ \A v \in Allocated(domain) :
             /\ v \in Allocated(domain')
             /\ NameOf(domain', v) = NameOf(domain, v)
             /\ Pack(domain', v).ret = Pack(domain, v).ret
       /\ \A n \in 1..size(domain) :
             /\ list(domain')[n] = list(domain)[n]
             /\ Unpack(domain', n).ret = Unpack(domain, n).ret
       /\ \A name \in DOMAIN domain.by_name :
             resolve(domain', name).ret = resolve(domain, name).ret
      ]_vars_all

\* the first variable is packed after the Cache has grown to MaxVars
\* variables and has been frozen
StableWitness ==
    /\ size(domain) = MaxVars
    /\ domain.frozen
    /\ ret.call = "pack" /\ ret.var = list(domain)[1] /\ ret.value = 1

(***************************************************************************)
(* Specification of a Cache shared by threads.  Every method of Cache      *)
(* starts by constructing a std::lock_guard on the mutex access and        *)
(* releases it on return or when an exception unwinds.  A thread's         *)
(* position pc is "done" between calls, "lock" while it waits for the      *)
(* mutex, then the statement it executes next, then "unlock".  The         *)
(* statements of put_variable are steps of their own.                      *)
(***************************************************************************)
Threads == {"t1", "t2"}

\* the names resolved; "1" is also the name unpack gives to variable 1
SharedNames == { <<"a">>, <<"1">> }

Calls == {"resolve", "unpack", "pack", "list", "size", "freeze", "thaw"}

IdleThread ==
    [pc |-> "done", call |-> "none", name |-> <<>>, nr |-> 0, var |-> 0,
     max |-> 0, thrown |-> "none", value |-> 0, listed |-> <<>>]

\* a std::mutex that lets every thread in
MutexOpen(holders) == TRUE

\* std::lock_guard<std::mutex> lock(access) returns when no thread holds it
MutexFree(holders) == holders = {}

SharedInit ==
    /\ fm = <<>>
    /\ pc = "idle"
    /\ received = <<>>
    /\ IdleStreams
    /\ IdleCall
    /\ text = <<>>
    /\ domain = NewCache
    /\ threads = [t \in Threads |-> IdleThread]
    /\ lock = {}

SharedRest == <<fm, pc, received, cnf, st, ts, tt, arg, ret, text>>

\* thread t calls a method of the Cache
Invoke(t) ==
    /\ threads[t].pc = "done"
    /\ \E call \in Calls, name \in SharedNames, nr \in 0..MaxSharedVars,
          var \in Allocated(domain) \cup {Foreign} :
          /\ call = "resolve" =>
                /\ nr = 0 /\ var = Foreign
                /\ \/ size(domain) < MaxSharedVars
                   \/ name \in DOMAIN domain.by_name
                   \/ domain.frozen
          /\ call = "unpack" => name = <<"a">> /\ var = Foreign
          /\ call = "pack" => name = <<"a">> /\ nr = 0
          /\ call \in {"list", "size", "freeze", "thaw"} =>
                name = <<"a">> /\ nr = 0 /\ var = Foreign
          /\ threads' = [threads EXCEPT ![t] =
                [IdleThread EXCEPT !.pc = "lock", !.call = call,
                                   !.name = IF call = "resolve" THEN name ELSE <<>>,
                                   !.nr = nr, !.var = var]]
    /\ UNCHANGED <<domain, lock, SharedRest>>

\* const std::lock_guard<std::mutex> lock(access)
Acquire(t) ==
    /\ threads[t].pc = "lock"
    /\ MutexFree(lock)
    /\ lock' = lock \cup {t}
    /\ threads' = [threads EXCEPT ![t].pc =
          CASE threads[t].call = "resolve" -> "find"
            [] threads[t].call = "unpack"  -> "check"
            [] OTHER                       -> threads[t].call]
    /\ UNCHANGED <<domain, SharedRest>>

\* resolve: by_name.find(name)
Find(t) ==
    /\ threads[t].pc = "find"
    /\ threads' = [threads EXCEPT ![t] =
          IF threads[t].name \in DOMAIN domain.by_name
          THEN [@ EXCEPT !.value = domain.by_name[threads[t].name],
                         !.pc = "unlock"]
          ELSE [@ EXCEPT !.pc = "new"]]
    /\ UNCHANGED <<domain, lock, SharedRest>>

\* unpack: the test of nr against 0, and max = cache.size()
Check(t) ==
    /\ threads[t].pc = "check"
    /\ threads' = [threads EXCEPT ![t] =
          IF threads[t].nr = 0
          THEN [@ EXCEPT !.thrown = "InvalidVarNr", !.pc = "unlock"]
          ELSE [@ EXCEPT !.max = Len(domain.cache), !.pc = "loop"]]
    /\ UNCHANGED <<domain, lock, SharedRest>>

\* unpack: while (max < nr), and return by_nr[nr - 1]
Loop(t) ==
    /\ threads[t].pc = "loop"
    /\ threads' = [threads EXCEPT ![t] =
          IF threads[t].max < threads[t].nr
          THEN [@ EXCEPT !.name = to_string(threads[t].max + 1), !.pc = "new"]
          ELSE [@ EXCEPT !.value = IF threads[t].nr <= Len(domain.by_nr)
                                   THEN domain.by_nr[threads[t].nr] ELSE 0,
                         !.pc = "unlock"]]
    /\ UNCHANGED <<domain, lock, SharedRest>>

\* new_variable and put_variable: if (frozen) throw X::Cache::Frozen()
New(t) ==
    /\ threads[t].pc = "new"
    /\ threads' = [threads EXCEPT ![t] =
          IF domain.frozen
          THEN [@ EXCEPT !.thrown = "Frozen", !.pc = "unlock"]
          ELSE [@ EXCEPT !.pc = "cache"]]
    /\ UNCHANGED <<domain, lock, SharedRest>>

\* put_variable: cache.push_back(move(uvar))
PushCache(t) ==
    /\ threads[t].pc = "cache"
    /\ domain' = [domain EXCEPT !.cache = Append(@, threads[t].name)]
    /\ threads' = [threads EXCEPT ![t].var = Len(domain.cache) + 1,
                                  ![t].pc = "by_name"]
    /\ UNCHANGED <<lock, SharedRest>>

\* put_variable: by_name.insert({ var->name, var })
InsertByName(t) ==
    /\ threads[t].pc = "by_name"
    /\ domain' = [domain EXCEPT
                     !.by_name = Insert(@, threads[t].name, threads[t].var)]
    /\ threads' = [threads EXCEPT ![t].pc = "by_nr"]
    /\ UNCHANGED <<lock, SharedRest>>

\* put_variable: by_nr.push_back(var)
PushByNr(t) ==
    /\ threads[t].pc = "by_nr"
    /\ domain' = [domain EXCEPT !.by_nr = Append(@, threads[t].var)]
    /\ threads' = [threads EXCEPT ![t].pc = "by_ref"]
    /\ UNCHANGED <<lock, SharedRest>>

\* put_variable: nr = by_nr.size(); by_ref.insert({ var, nr }); and the
\* return to resolve or to the loop of unpack
InsertByRef(t) ==
    /\ threads[t].pc = "by_ref"
    /\ domain' = [domain EXCEPT
                     !.by_ref = Insert(@, threads[t].var, Len(domain.by_nr))]
    /\ threads' = [threads EXCEPT ![t] =
          IF threads[t].call = "resolve"
          THEN [@ EXCEPT !.value = threads[t].var, !.pc = "unlock"]
          ELSE [@ EXCEPT !.max = Len(domain.by_nr), !.pc = "loop"]]
    /\ UNCHANGED <<lock, SharedRest>>

\* the body of pack
PackLocked(t) ==
    /\ threads[t].pc = "pack"
    /\ LET r == Pack(domain, threads[t].var)
       IN /\ domain' = r.d
          /\ threads' = [threads EXCEPT ![t].value = r.ret, ![t].pc = "unlock"]
    /\ UNCHANGED <<lock, SharedRest>>

\* the body of list
ListLocked(t) ==
    /\ threads[t].pc = "list"
    /\ threads' = [threads EXCEPT ![t].listed = list(domain),
                                  ![t].pc = "unlock"]
    /\ UNCHANGED <<domain, lock, SharedRest>>

\* the body of size
SizeLocked(t) ==
    /\ threads[t].pc = "size"
    /\ threads' = [threads EXCEPT ![t].value = size(domain),
                                  ![t].pc = "unlock"]
    /\ UNCHANGED <<domain, lock, SharedRest>>

\* the body of freeze
FreezeLocked(t) ==
    /\ threads[t].pc = "freeze"
    /\ domain' = freeze(domain)
    /\ threads' = [threads EXCEPT ![t].pc = "unlock"]
    /\ UNCHANGED <<lock, SharedRest>>

\* the body of thaw
ThawLocked(t) ==
    /\ threads[t].pc = "thaw"
    /\ domain' = thaw(domain)
    /\ threads' = [threads EXCEPT ![t].pc = "unlock"]
    /\ UNCHANGED <<lock, SharedRest>>

\* the destructor of the lock_guard, on return and on unwinding
Release(t) ==
    /\ threads[t].pc = "unlock"
    /\ lock' = lock \ {t}
    /\ threads' = [threads EXCEPT ![t].pc = "done"]
    /\ UNCHANGED <<domain, SharedRest>>

SharedNext ==
    \E t \in Threads :
       \/ Invoke(t) \/ Acquire(t) \/ Find(t) \/ Check(t) \/ Loop(t) \/ New(t)
       \/ PushCache(t) \/ InsertByName(t) \/ PushByNr(t) \/ InsertByRef(t)
       \/ PackLocked(t) \/ ListLocked(t) \/ SizeLocked(t)
       \/ FreezeLocked(t) \/ ThawLocked(t) \/ Release(t)

SpecShared == SharedInit /\ [][SharedNext]_vars_all

\* thread t is between taking and releasing the mutex
Inside(t) == threads[t].pc \notin {"done", "lock"}

\* what holds of a shared Cache in every state
SharedSafe ==
    /\ \A t, u \in Threads : Inside(t) /\ Inside(u) => t = u
    /\ (\A t \in Threads : ~Inside(t)) => Bijection(domain)
    /\ \A t \in Threads :
          threads[t].pc = "done" /\ threads[t].call = "resolve"
             /\ threads[t].thrown = "none" =>
                /\ threads[t].value \in Allocated(domain)
                /\ NameOf(domain, threads[t].value) = threads[t].name
                /\ domain.by_name[threads[t].name] = threads[t].value
    /\ \A t \in Threads :
          threads[t].pc = "done" /\ threads[t].call = "unpack"
             /\ threads[t].thrown = "none" =>
                Pack(domain, threads[t].value).ret = threads[t].nr

\* what holds of every step on a shared Cache: resolve allocates only for a
\* name that has no variable yet, and the variable a name resolves to never
\* changes
SharedStep ==
    /\ \A t \in Threads :
          threads[t].pc = "cache" /\ threads'[t].pc = "by_name"
             /\ threads[t].call = "resolve" =>
                /\ threads[t].name \notin DOMAIN domain.by_name
                /\ \A v \in Allocated(domain) :
                      NameOf(domain, v) # threads[t].name
    /\ \A name \in DOMAIN domain.by_name :
          name \in DOMAIN domain'.by_name
             /\ domain'.by_name[name] = domain.by_name[name]

\* C7: on a Cache shared by threads the calls exclude each other, between
\* calls the VarNr bijection holds, every caller of resolve for one name gets
\* the same handle, and resolve allocates one variable per name.
SharedCacheSafe == []SharedSafe /\ [][SharedStep]_vars_all

\* one thread is in the middle of allocating for a name while another one
\* waits for the mutex to resolve the same name
SharedWitness ==
    \E t, u \in Threads :
       /\ t # u
       /\ threads[t].call = "resolve" /\ threads[t].pc = "by_nr"
       /\ threads[u].call = "resolve" /\ threads[u].pc = "lock"
       /\ threads[u].name = threads[t].name

(***************************************************************************)
(* Specification of evaluation: a formula is drawn and evaluated under an  *)
(* assignment of some of the variables, by Formula::eval or by the         *)
(* recursive Formula::EVAL.                                                *)
(***************************************************************************)
EvalInit ==
    /\ fm \in Formulas
    /\ pc = "start"
    /\ received = <<>>
    /\ IdleStreams
    /\ IdleCall
    /\ IdleParser
    /\ IdleThreads

EvalRest == <<fm, received, cnf, st, ts, tt, text, domain, threads, lock>>

\* fm.eval(a)
Eval ==
    /\ pc = "start"
    /\ \E a \in PartialAssignments :
          /\ arg' = a
          /\ ret' = [call |-> "eval", result |-> eval(fm, a)]
    /\ pc' = "evaluated"
    /\ UNCHANGED EvalRest

\* fm.EVAL(a, 0)
EvalRecursive ==
    /\ pc = "start"
    /\ \E a \in PartialAssignments :
          /\ arg' = a
          /\ ret' = [call |-> "EVAL", result |-> EVAL(fm, a)]
    /\ pc' = "evaluated"
    /\ UNCHANGED EvalRest

EvalNext == Eval \/ EvalRecursive

SpecEval == EvalInit /\ [][EvalNext]_vars_all

\* evaluation that goes through the operands from left to right and leaves
\* out the right operand of &, | and -> when the left one decides; thrown
\* when it reaches a variable without a value
RECURSIVE ShortCircuit(_, _)
ShortCircuit(pn, a) ==
    LET ast == pn[1]
        l   == ShortCircuit(Lhs(pn), a)
        r   == ShortCircuit(Rhs(pn), a)
    IN CASE ast.type = "Const" -> Value(ast.value)
         [] ast.type = "Var" ->
              IF unpack(ast.var) \in DOMAIN a.vmap
              THEN Value(a.vmap[unpack(ast.var)]) ELSE Thrown
         [] ast.type = "Not" ->
              IF r.thrown THEN Thrown ELSE Value(~r.value)
         [] ast.type \in {"And", "Or", "Impl"} ->
              IF l.thrown THEN Thrown
              ELSE IF ast.type = "And" /\ ~l.value THEN Value(FALSE)
              ELSE IF ast.type = "Or" /\ l.value THEN Value(TRUE)
              ELSE IF ast.type = "Impl" /\ ~l.value THEN Value(TRUE)
              ELSE r
         [] OTHER ->
              IF l.thrown \/ r.thrown THEN Thrown
              ELSE Value(Connective(ast.type, l.value, r.value))

\* C9: Formula.eval on a partial assignment gives the value that
\* left-to-right evaluation with short-circuiting &, | and -> gives, and
\* raises OutOfRange only when that evaluation reaches an unassigned variable.
EvalShortCircuits ==
    pc = "evaluated" /\ ret.call = "eval" =>
       ret.result = ShortCircuit(fm, arg)

\* C28: under an assignment that has a value for every variable of the
\* formula, the iterative evaluator eval and the recursive evaluator EVAL
\* return the same value, and neither throws.
EvaluatorsAgree ==
    (pc = "evaluated" /\ Range(vars(fm)) \subseteq DOMAIN arg.vmap) =>
       /\ ~ret.result.thrown
       /\ ret.call = "eval" => ret.result = EVAL(fm, arg)
       /\ ret.call = "EVAL" => ret.result = eval(fm, arg)

\* an implication over two different variables evaluated by EVAL under a
\* total assignment that makes the operands differ
EvaluatorsWitness ==
    /\ pc = "evaluated"
    /\ ret.call = "EVAL"
    /\ fm[1].type = "Impl"
    /\ Len(vars(fm)) >= 2
    /\ Range(vars(fm)) \subseteq DOMAIN arg.vmap
    /\ EVAL(Lhs(fm), arg).value # EVAL(Rhs(fm), arg).value

(***************************************************************************)
(* Specification of the truth table stream: a formula is drawn, its        *)
(* Truthtable is constructed and read to its end.                          *)
(***************************************************************************)
\* Truthtable::operator*
Row(pn, last) == [assignment |-> last, value |-> eval(pn, last).value]

\* Truthtable::operator bool
TruthtableValid(last) == ~last.overflow

TruthtableInit ==
    /\ fm \in Formulas
    /\ pc = "start"
    /\ received = <<>>
    /\ cnf = NoCnf
    /\ st = NoStream
    /\ ts = NoTseitin
    /\ tt = NoAssignment
    /\ IdleCall
    /\ IdleParser
    /\ IdleThreads

TruthtableRest == <<fm, cnf, st, ts, arg, ret, text, domain, threads, lock>>

\* Truthtable tt(fm), and the consumer reads the first row if there is one
TruthtableConstruct ==
    /\ pc = "start"
    /\ tt' = AssignmentOf(vars(fm))
    /\ pc' = IF TruthtableValid(tt') THEN "valid" ELSE "done"
    /\ received' = IF TruthtableValid(tt') THEN Append(received, Row(fm, tt'))
                   ELSE received
    /\ UNCHANGED TruthtableRest

\* ++tt, and the consumer reads the next row if there is one
TruthtableIncrement ==
    /\ pc = "valid"
    /\ tt' = Increment(tt)
    /\ pc' = IF TruthtableValid(tt') THEN "valid" ELSE "done"
    /\ received' = IF TruthtableValid(tt') THEN Append(received, Row(fm, tt'))
                   ELSE received
    /\ UNCHANGED TruthtableRest

TruthtableNext == TruthtableConstruct \/ TruthtableIncrement

SpecTruthtable == TruthtableInit /\ [][TruthtableNext]_vars_all

RECURSIVE Pow2(_)
Pow2(n) == IF n = 0 THEN 1 ELSE 2 * Pow2(n - 1)

\* the k-th assignment in counter order on the variables vs, the first
\* variable being the least significant bit
Counter(vs, k) ==
    [v \in Range(vs) |->
        LET i == CHOOSE j \in 1..Len(vs) : vs[j] = v
        IN (k \div Pow2(i - 1)) % 2 = 1]

\* C10: the truth table of F read to its end has exactly 2^n rows for the n
\* variables of F, one row for a constant formula, in counter order from
\* all-false with the lowest VarNr as least significant bit, each with the
\* value of F under its assignment.
TruthtableRows ==
    /\ Len(received) <= Pow2(Len(vars(fm)))
    /\ \A i \in 1..Len(received) :
          /\ received[i].assignment.order = vars(fm)
          /\ received[i].assignment.vmap = Counter(vars(fm), i - 1)
          /\ received[i].value = EVAL(fm, received[i].assignment).value
    /\ pc = "done" => Len(received) = Pow2(Len(vars(fm)))

(***************************************************************************)
(* Specification of the Assignment counter: the all-false Assignment on    *)
(* some variables in some order is incremented again and again; received   *)
(* holds the Assignment after each increment.                              *)
(***************************************************************************)
MaxIncrements == 9

\* every order of every set of variables of the source domain
Orders ==
    {vs \in UNION {[1..n -> Range(Names)] : n \in 0..Len(Names)} :
        \A i, j \in 1..Len(vs) : i # j => vs[i] # vs[j]}

AssignmentInit ==
    /\ fm = <<>>
    /\ pc = "counting"
    /\ received = <<>>
    /\ cnf = NoCnf
    /\ st = NoStream
    /\ ts = NoTseitin
    /\ tt \in {AssignmentOf(vs) : vs \in Orders}
    /\ IdleCall
    /\ IdleParser
    /\ IdleThreads

\* ++assign
AssignmentIncrement ==
    /\ pc = "counting"
    /\ Len(received) < MaxIncrements
    /\ tt' = Increment(tt)
    /\ received' = Append(received, tt')
    /\ UNCHANGED <<fm, pc, cnf, st, ts, arg, ret, text, domain, threads, lock>>

\* ~assign
AssignmentNegate ==
    /\ pc = "counting"
    /\ arg' = Negate(tt)
    /\ pc' = "negated"
    /\ UNCHANGED <<fm, received, cnf, st, ts, tt, ret, text, domain, threads, lock>>

AssignmentNext == AssignmentIncrement \/ AssignmentNegate

SpecAssignment == AssignmentInit /\ [][AssignmentNext]_vars_all

\* C11: the k-th increment of the all-false assignment on n variables gives
\* the value k mod 2^n of a little-endian counter on the order (first
\* variable least significant); the 2^n values are pairwise distinct;
\* overflow is false after increments 1..2^n-1 and true after the 2^n-th,
\* which is all-false again.
AssignmentCounter ==
    LET n == Len(tt.order)
    IN /\ \A k \in 1..Len(received) :
             /\ received[k].order = tt.order
             /\ received[k].vmap = Counter(tt.order, k % Pow2(n))
             /\ received[k].overflow = (k % Pow2(n) = 0)
       /\ \A k, l \in 1..Len(received) :
             k < l /\ l <= Pow2(n) => received[k].vmap # received[l].vmap
       /\ Len(received) >= Pow2(n) =>
             /\ \A v \in Range(tt.order) : ~received[Pow2(n)].vmap[v]
             /\ received[Pow2(n)].overflow

AssignmentWitness ==
    /\ Len(tt.order) = Len(Names)
    /\ Len(received) = Pow2(Len(Names))
    /\ tt.overflow
    /\ \A v \in Range(tt.order) : ~tt.vmap[v]
    /\ ~received[Pow2(Len(Names)) - 1].overflow

\* C21: the negation of an Assignment has the variable order of the operand,
\* every value flipped and the overflow flag of the operand, and the operand
\* is as it was.
NegationKeepsOverflow ==
    pc = "negated" =>
       /\ arg.order = tt.order
       /\ DOMAIN arg.vmap = DOMAIN tt.vmap
       /\ \A v \in DOMAIN tt.vmap : arg.vmap[v] = ~tt.vmap[v]
       /\ arg.overflow = tt.overflow
       /\ (received # <<>>) => tt = received[Len(received)]

(***************************************************************************)
(* The DIMACS codec (dimacs.cpp).  A file is the sequence of its lines,    *)
(* each ended by a newline; a line is the sequence of its characters.  An  *)
(* istream over a file is the record of the lines, the number of lines     *)
(* read so far and the eof flag, which getline sets when it finds nothing  *)
(* left to read.                                                           *)
(***************************************************************************)
starts_with(line, prefix) ==
    Len(line) >= Len(prefix) /\ SubSeq(line, 1, Len(prefix)) = prefix

\* the index of the first character at or after i that is not a space
RECURSIVE SkipSpace(_, _)
SkipSpace(line, i) ==
    IF i <= Len(line) /\ line[i] = " " THEN SkipSpace(line, i + 1) ELSE i

IsDigit(ch) == \E k \in 1..10 : Digits[k] = ch

DigitValue(ch) == (CHOOSE k \in 1..10 : Digits[k] = ch) - 1

\* the digits from index i on: their value and the index after them
RECURSIVE ReadDigits(_, _, _)
ReadDigits(line, i, acc) ==
    IF i <= Len(line) /\ IsDigit(line[i])
    THEN ReadDigits(line, i + 1, 10 * acc + DigitValue(line[i]))
    ELSE [value |-> acc, i |-> i]

\* "ss >> lit": the number read (0 when the extraction fails), the index
\* after it and whether the stringstream has met its end
ReadLong(line, i0) ==
    LET i    == SkipSpace(line, i0)
        neg  == i <= Len(line) /\ line[i] = "-"
        j    == IF i <= Len(line) /\ line[i] \in {"-", "+"} THEN i + 1 ELSE i
        r    == ReadDigits(line, j, 0)
    IN IF r.i = j
       THEN [lit |-> 0, i |-> j, eof |-> j > Len(line)]
       ELSE [lit |-> IF neg THEN 0 - r.value ELSE r.value,
             i   |-> r.i, eof |-> r.i > Len(line)]

abs(n) == IF n < 0 THEN 0 - n ELSE n

\* DIMACS::In::operator++, the loop over the numbers of a clause line: the
\* clause, the Domain afterwards and the exception that left unpack
RECURSIVE ReadClause(_, _, _, _)
ReadClause(line, i, last, d) ==
    LET r == ReadLong(line, i)
        u == Unpack(d, abs(r.lit))
    IN IF r.lit = 0 THEN [last |-> last, d |-> d, thrown |-> "none"]
       ELSE IF u.thrown # "none" THEN [last |-> last, d |-> u.d, thrown |-> u.thrown]
       ELSE IF r.eof THEN [last |-> Store(last, u.ret, r.lit > 0), d |-> u.d,
                           thrown |-> "none"]
       ELSE ReadClause(line, r.i, Store(last, u.ret, r.lit > 0), u.d)

\* a DIMACS::In on the lines of a file, before its constructor body has run
InNew(lines, d) ==
    [lines |-> lines, pos |-> 0, eof |-> FALSE, d |-> d,
     last |-> VarMapOf(<<>>), thrown |-> "none"]

\* DIMACS::In::operator++
RECURSIVE InAdvance(_)
InAdvance(in) ==
    IF in.eof THEN in
    ELSE IF in.pos = Len(in.lines) THEN [in EXCEPT !.eof = TRUE]
    ELSE LET line == in.lines[in.pos + 1]
             next == [in EXCEPT !.pos = @ + 1]
             c    == ReadClause(line, 1, VarMapOf(<<>>), in.d)
         IN IF Len(line) = 0 THEN InAdvance(next)
            ELSE IF starts_with(line, <<"p", " ", "c", "n", "f", " ">>)
            THEN InAdvance(next)
            ELSE IF starts_with(line, <<"c", " ">>) THEN InAdvance(next)
            ELSE [next EXCEPT !.last = c.last, !.d = c.d, !.thrown = c.thrown]

\* DIMACS::In::operator bool
InValid(in) == ~in.eof

\* the clauses "for (auto cl : clauses)" goes through, from the In that its
\* constructor has forwarded to the first clause
RECURSIVE InClauses(_, _)
InClauses(in, acc) ==
    IF in.thrown # "none" \/ ~InValid(in)
    THEN [clauses |-> acc, d |-> in.d, thrown |-> in.thrown]
    ELSE InClauses(InAdvance(in), Append(acc, in.last))

\* vector::erase at the index it
Erase(pn, it) == SubSeq(pn, 1, it - 1) \o SubSeq(pn, it + 1, Len(pn))

\* clause_ast, the loop over the variables of the clause: the vector
RECURSIVE ClauseNodes(_, _, _, _)
ClauseNodes(cl, d, i, pn) ==
    IF i > Len(cl.order) THEN pn
    ELSE LET v   == cl.order[i]
             lit == make_var(Pack(d, v).ret)
         IN ClauseNodes(cl, d, i + 1,
               pn \o <<make_op("Or")>>
                  \o (IF ~cl.vmap[v] THEN <<make_op("Not")>> ELSE <<>>)
                  \o <<lit>>)

\* clause_ast, last_or: the index of the Or pushed for the last variable
LastOr(cl) ==
    1 + 2 * (Len(cl.order) - 1)
      + Cardinality({j \in 1..(Len(cl.order) - 1) : ~cl.vmap[cl.order[j]]})

\* What a vector built through a kept iterator can be.  The iterator is
\* taken before later insertions, which invalidate it when the vector
\* moves to new storage; erasing through it is then undefined.
Built(pn)    == [status |-> "ok", pn |-> pn]
Invalidated  == [status |-> "undefined", pn |-> <<>>]

\* clause_ast when last_or still points at the last Or
ClausePn(cl, d) ==
    IF Len(cl.order) = 0
    THEN <<make_const(FALSE)>>
    ELSE Erase(ClauseNodes(cl, d, 1, <<>>), LastOr(cl))

\* clause_ast: every outcome of the call
clause_ast(cl, d) ==
    IF Len(cl.order) = 0
    THEN {Built(ClausePn(cl, d))}
    ELSE {Built(ClausePn(cl, d)), Invalidated}

\* Formula::Formula(Stream<Clause>&, Domain*), the loop over the clauses
\* while every clause_ast returns its vector
RECURSIVE FormulaNodes(_, _, _, _)
FormulaNodes(clauses, d, i, pn) ==
    IF i > Len(clauses) THEN pn
    ELSE FormulaNodes(clauses, d, i + 1,
                      pn \o <<make_op("And")>> \o ClausePn(clauses[i], d))

\* Formula::Formula(Stream<Clause>&, Domain*), last_and: the index of the
\* And pushed for the last clause
LastAnd(clauses, d) ==
    Len(FormulaNodes(clauses, d, 1, <<>>))
       - Len(ClausePn(clauses[Len(clauses)], d))

\* Formula::Formula(Stream<Clause>&, Domain*): every outcome
FormulaOfClauses(clauses, d) ==
    IF Len(clauses) = 0
    THEN {Built(<<make_const(TRUE)>>)}
    ELSE {Built(Erase(FormulaNodes(clauses, d, 1, <<>>), LastAnd(clauses, d))),
          Invalidated}

\* DIMACS::read: every outcome, with the Domain afterwards
read(lines, d) ==
    LET in == InClauses(InAdvance(InNew(lines, d)), <<>>)
    IN {[status |-> f.status, pn |-> f.pn, d |-> in.d] :
           f \in FormulaOfClauses(in.clauses, in.d)}

(***************************************************************************)
(* Specification of DIMACS::read: a file is drawn, read into a formula on  *)
(* the Domain of the names, and the formula is evaluated.  received holds  *)
(* what the lines of the file are: a blank line, a comment, the header or  *)
(* a clause line with its numbers.                                         *)
(***************************************************************************)
MaxLines == 2
MaxLits  == 2

Literals == {1, 0 - 1, 2, 0 - 2}

\* a to_string that loses the sign
unsigned_to_string(n) == to_string(abs(n))

\* std::to_string of a signed number
signed_to_string(n) ==
    IF n < 0 THEN <<"-">> \o to_string(0 - n) ELSE to_string(n)

\* a clause line: the numbers, a space after each, and the closing 0
RECURSIVE ClauseLine(_)
ClauseLine(lits) ==
    IF lits = <<>> THEN <<"0">>
    ELSE signed_to_string(Head(lits)) \o <<" ">> \o ClauseLine(Tail(lits))

LineKinds ==
    {[kind |-> "blank", lits |-> <<>>],
     [kind |-> "comment", lits |-> <<>>],
     [kind |-> "header", lits |-> <<>>]}
    \cup {[kind |-> "clause", lits |-> lits] :
             lits \in UNION {[1..n -> Literals] : n \in 0..MaxLits}}

LineText(l) ==
    CASE l.kind = "blank"   -> <<>>
      [] l.kind = "comment" -> <<"c", " ", "x">>
      [] l.kind = "header"  -> <<"p", " ", "c", "n", "f", " ", "2", " ", "2">>
      [] l.kind = "clause"  -> ClauseLine(l.lits)

Files == UNION {[1..n -> LineKinds] : n \in 0..MaxLines}

FileText(file) == [i \in 1..Len(file) |-> LineText(file[i])]

ReadInit ==
    /\ fm = <<>>
    /\ pc = "start"
    /\ received \in Files
    /\ IdleStreams
    /\ IdleCall
    /\ text = FileText(received)
    /\ domain = NamesCache
    /\ IdleThreads

\* DIMACS::read(in, domain)
Read ==
    /\ pc = "start"
    /\ \E r \in read(text, domain) :
          /\ fm' = r.pn
          /\ domain' = r.d
          /\ pc' = IF r.status = "ok" THEN "read" ELSE "undefined"
    /\ UNCHANGED <<received, cnf, st, ts, tt, arg, ret, text, threads, lock>>

\* fm.eval(a) for the formula read
EvalRead ==
    /\ pc = "read"
    /\ \E a \in TotalAssignments(Names) :
          /\ arg' = a
          /\ ret' = [call |-> "eval", result |-> eval(fm, a)]
    /\ pc' = "evaluated"
    /\ UNCHANGED <<fm, received, cnf, st, ts, tt, text, domain, threads, lock>>

ReadNext == Read \/ EvalRead

SpecRead == ReadInit /\ [][ReadNext]_vars_all

\* the number i is satisfied by a: unpack(|i|) is true for i > 0, false for i < 0
Satisfied(i, a) == a.vmap[unpack(abs(i))] = (i > 0)

\* C12: DIMACS.read returns a formula, and it is true under an assignment
\* exactly when every clause line of the file has a number satisfied by the
\* assignment; blank lines, comments and the header count for nothing.
ReadMeaning ==
    /\ pc # "undefined"
    /\ pc = "evaluated" =>
          /\ ~ret.result.thrown
          /\ ret.result.value =
                (\A k \in 1..Len(received) :
                    received[k].kind = "clause" =>
                       \E j \in 1..Len(received[k].lits) :
                          Satisfied(received[k].lits[j], arg))

(***************************************************************************)
(* Streams.  A Stream in caching mode keeps in cache every value it has    *)
(* produced; a traversal started with begin() goes through the cache and   *)
(* carries on with the live stream behind it.  A stream is the record of   *)
(* its members; value is the value produced last and produced counts the   *)
(* calls of produce.  Range is the stream of the integers [cur, to).       *)
(***************************************************************************)
\* Stream<T>::produce
produce(s, v) ==
    [s EXCEPT !.value = v,
              !.produced = @ + 1,
              !.cache = IF s.caching THEN Append(@, v) ELSE @]

\* Range::Range(from, to, caching)
RangeNew(from, to, caching) ==
    LET s == [kind |-> "Range", cur |-> from, to |-> to, caching |-> caching,
              cache |-> <<>>, value |-> 0, produced |-> 0]
    IN IF s.cur < s.to THEN produce(s, s.cur) ELSE s

\* Range::operator bool
RangeValid(s) == s.cur < s.to

\* Range::operator++
RangeAdvance(s) ==
    LET t == [s EXCEPT !.cur = @ + 1]
    IN IF t.cur < t.to THEN produce(t, t.cur) ELSE t

\* Stream<T>::size
StreamSize(s) == Len(s.cache)

\* Stream<T>::begin on a stream in caching mode: the iterator stands on the
\* first cached value; an iterator is its index into the cache
StreamBegin(s) == 1

\* iterator != end()
IterValid(s, it) == it <= Len(s.cache)

\* *iterator
IterValue(s, it) == s.cache[it]

\* ++iterator: the stream afterwards; behind the cache the live stream is
\* advanced
IterAdvance(s, it) ==
    IF it >= Len(s.cache) /\ RangeValid(s) THEN RangeAdvance(s) ELSE s

\* Stream<T>::Cached::Cached(Stream<T>*), "for (auto c : *st)" over the
\* live stream
RECURSIVE CachedFill(_, _)
CachedFill(src, cache) ==
    IF RangeValid(src)
    THEN CachedFill(RangeAdvance(src), Append(cache, src.value))
    ELSE cache

\* Stream<T>::Cached::Cached
CachedNew(src) ==
    [kind |-> "Cached", cache |-> CachedFill(src, <<>>), i |-> 0]

\* Stream<T>::Cached::operator bool
CachedValid(c) == c.i < Len(c.cache)

\* Stream<T>::Cached::operator*
CachedValue(c) == c.cache[c.i + 1]

\* Stream<T>::Cached::operator++
CachedAdvance(c) == [c EXCEPT !.i = @ + 1]

\* Stream<T>::Cached::size
CachedSize(c) == Len(c.cache)

\* a begin() that leaves the stream pointer where it is
CachedBeginNoReset(c) == c

\* Stream<T>::Cached::begin, with Cached::reset
CachedBegin(c) == [c EXCEPT !.i = 0]

(***************************************************************************)
(* Specification of the DIMACS round trip: a stream of clauses on a Cache  *)
(* of twelve variables is written to a file by DIMACS::write and the file  *)
(* is read back by a DIMACS::In on the same Cache.  received holds the     *)
(* clauses of the stream written; ret holds the clauses read back.         *)
(***************************************************************************)
\* DIMACS::Out::operator*, the loop over the variables of the clause
RECURSIVE OutLiterals(_, _, _)
OutLiterals(cl, d, i) ==
    IF i > Len(cl.order) THEN <<>>
    ELSE LET v  == cl.order[i]
             nr == Pack(d, v).ret
         IN signed_to_string(IF ~cl.vmap[v] THEN 0 - nr ELSE nr) \o <<" ">>
            \o OutLiterals(cl, d, i + 1)

\* DIMACS::Out::operator*
OutLine(cl, d) == OutLiterals(cl, d, 1) \o <<"0">>

\* DIMACS::write(out, clauses, domain, comments), the loop for maxvar
RECURSIVE MaxVar(_, _, _, _)
MaxVar(clauses, d, k, maxvar) ==
    IF k > Len(clauses) THEN maxvar
    ELSE LET nrs == {Pack(d, v).ret : v \in Range(clauses[k].order)} \cup {maxvar}
         IN MaxVar(clauses, d, k + 1, CHOOSE m \in nrs : \A n \in nrs : n <= m)

\* DIMACS::write: the lines put out for the clauses that the stream holds;
\* cache_all and the two traversals go through every clause once, in order
write(clauses, d, comments) ==
    [k \in 1..Len(comments) |-> <<"c", " ">> \o comments[k]]
    \o << <<"p", " ", "c", "n", "f", " ">>
            \o to_string(MaxVar(clauses, d, 1, 0)) \o <<" ">>
            \o to_string(Len(clauses)) >>
    \o [k \in 1..Len(clauses) |-> OutLine(clauses[k], d)]

\* the variables and signs a clause of the stream is made of
ClauseData ==
    UNION {[1..n -> {<<1, TRUE>>, <<1, FALSE>>, <<12, FALSE>>}] : n \in 0..MaxLits}

ClauseStreams ==
    UNION {[1..n -> {make_clause(il) : il \in ClauseData}] : n \in 0..MaxLines}

\* the Cache in which unpack(12) has allocated the variables 1..12
TwelveCache == Unpack(NewCache, 12).d

NoClauses == [call |-> "In", clauses |-> <<>>]

DimacsInit ==
    /\ fm = <<>>
    /\ pc = "start"
    /\ received \in ClauseStreams
    /\ IdleStreams
    /\ arg = NoAssignment
    /\ ret = NoClauses
    /\ text = <<>>
    /\ domain = TwelveCache
    /\ IdleThreads

DimacsRest == <<fm, received, cnf, ts, tt, arg, threads, lock>>

\* DIMACS::write(out, clauses, domain, comments)
DimacsWrite ==
    /\ pc = "start"
    /\ \E comments \in {<<>>, << <<"x">> >>} :
          text' = write(received, domain, comments)
    /\ pc' = "written"
    /\ UNCHANGED <<ret, domain, st, DimacsRest>>

\* what the consumer of the DIMACS::In does after the stream has moved:
\* it takes the clause if the stream is valid
Taken(in) ==
    /\ st' = in
    /\ domain' = in.d
    /\ pc' = IF InValid(in) THEN "reading" ELSE "done"
    /\ ret' = IF InValid(in)
              THEN [ret EXCEPT !.clauses = Append(@, in.last)]
              ELSE ret

\* DIMACS::In in(file, domain)
InConstruct ==
    /\ pc = "written"
    /\ Taken(InAdvance(InNew(text, domain)))
    /\ UNCHANGED <<text, DimacsRest>>

\* ++in
InIncrement ==
    /\ pc = "reading"
    /\ Taken(InAdvance(st))
    /\ UNCHANGED <<text, DimacsRest>>

DimacsNext == DimacsWrite \/ InConstruct \/ InIncrement

SpecDimacs == DimacsInit /\ [][DimacsNext]_vars_all

\* two clauses have the same variables with the same signs
SameClause(c, e) == c.vmap = e.vmap /\ Range(c.order) = Range(e.order)

RangeFrom == 10
MaxElems  == 3

Elems(from, to) == [k \in 1..(to - from) |-> from + k - 1]

StreamsUnderTest ==
    UNION {{[s     |-> RangeNew(RangeFrom, to, TRUE),
             it    |-> 0,
             cut   |-> FALSE,
             elems |-> Elems(RangeFrom, to)],
            [s     |-> CachedNew(RangeNew(RangeFrom, to, FALSE)),
             it    |-> 0,
             cut   |-> FALSE,
             elems |-> Elems(RangeFrom, to)]} :
              to \in RangeFrom..(RangeFrom + MaxElems)}

StreamInit ==
    /\ fm = <<>>
    /\ pc = "idle"
    /\ received = <<>>
    /\ cnf = NoCnf
    /\ ts = NoTseitin
    /\ tt = NoAssignment
    /\ st \in StreamsUnderTest
    /\ IdleCall
    /\ IdleParser
    /\ IdleThreads

StreamRest == <<fm, cnf, ts, tt, arg, ret, text, domain, threads, lock>>

\* what the range-based for loop does once the iterator stands: it takes
\* the value if the iterator differs from end()
Yielded(s, it, valid, value, sofar) ==
    /\ st' = [st EXCEPT !.s = s, !.it = it]
    /\ pc' = IF valid THEN "traversing" ELSE "ended"
    /\ received' = IF valid THEN Append(sofar, value) ELSE sofar

\* ++r on the stream itself, between traversals
Consume ==
    /\ pc # "traversing"
    /\ IF st.s.kind = "Range"
       THEN RangeValid(st.s) /\ st' = [st EXCEPT !.s = RangeAdvance(@)]
       ELSE CachedValid(st.s) /\ st' = [st EXCEPT !.s = CachedAdvance(@)]
    /\ UNCHANGED <<pc, received, StreamRest>>

\* for (auto got : r), from begin() to the first value
Begin ==
    /\ pc # "traversing"
    /\ IF st.s.kind = "Range"
       THEN LET it == StreamBegin(st.s)
            IN Yielded(st.s, it, IterValid(st.s, it),
                       IF IterValid(st.s, it) THEN IterValue(st.s, it) ELSE 0,
                       <<>>)
       ELSE LET c == CachedBegin(st.s)
            IN Yielded(c, 0, CachedValid(c),
                       IF CachedValid(c) THEN CachedValue(c) ELSE 0, <<>>)
    /\ UNCHANGED StreamRest

\* for (auto got : r), ++iterator and the next value
Next ==
    /\ pc = "traversing"
    /\ IF st.s.kind = "Range"
       THEN LET s  == IterAdvance(st.s, st.it)
                it == st.it + 1
            IN Yielded(s, it, IterValid(s, it),
                       IF IterValid(s, it) THEN IterValue(s, it) ELSE 0,
                       received)
       ELSE LET c == CachedAdvance(st.s)
            IN Yielded(c, 0, CachedValid(c),
                       IF CachedValid(c) THEN CachedValue(c) ELSE 0, received)
    /\ UNCHANGED StreamRest

\* break out of the for loop
Break ==
    /\ pc = "traversing"
    /\ pc' = "idle"
    /\ st' = [st EXCEPT !.cut = TRUE]
    /\ UNCHANGED <<received, StreamRest>>

StreamNext == Consume \/ Begin \/ Next \/ Break

SpecStream == StreamInit /\ [][StreamNext]_vars_all

MaxTokens == 4

\* the lexemes typed and the token each one is
Lexemes ==
    { [chars |-> <<"a">>,       kind |-> "atom"],
      [chars |-> <<"b">>,       kind |-> "atom"],
      [chars |-> <<"\\", "T">>, kind |-> "atom"],
      [chars |-> <<"~">>,       kind |-> "unary"],
      [chars |-> <<"&">>,       kind |-> "binary"],
      [chars |-> <<">">>,       kind |-> "binary"],
      [chars |-> <<"(">>,       kind |-> "open"],
      [chars |-> <<")">>,       kind |-> "close"],
      [chars |-> <<"[">>,       kind |-> "bracket"],
      [chars |-> <<"+">>,       kind |-> "unknown"] }

LexemeSeqs == UNION { [1..n -> Lexemes] : n \in 0..MaxTokens }

\* how the lexemes are laid out: with no blanks but the one that keeps two
\* names apart, with blanks around what is no term ("~a + b"), or with a
\* blank before every lexeme and one at the end
Layouts == {"tight", "words", "spaced"}

IsName(lex) == lex.kind = "atom" /\ isalnum(lex.chars[1])

Gap(lexs, k, layout) ==
    IF layout = "spaced" THEN <<" ">>
    ELSE IF k > 1 /\ IsName(lexs[k]) /\ IsName(lexs[k - 1]) THEN <<" ">>
    ELSE IF /\ layout = "words"
            /\ k > 1
            /\ \/ lexs[k].kind \in {"binary", "unknown"}
               \/ lexs[k - 1].kind \in {"binary", "unknown"}
    THEN <<" ">>
    ELSE <<>>

\* the text of the first k lexemes
RECURSIVE TypedUpTo(_, _, _)
TypedUpTo(lexs, k, layout) ==
    IF k = 0 THEN <<>>
    ELSE TypedUpTo(lexs, k - 1, layout) \o Gap(lexs, k, layout) \o lexs[k].chars

Typed(lexs, layout) ==
    TypedUpTo(lexs, Len(lexs), layout)
        \o (IF layout = "spaced" THEN <<" ">> ELSE <<>>)

\* the lexemes with the 0-based offset of each one's first character
Placed(lexs, layout) ==
    [k \in 1..Len(lexs) |->
        [chars  |-> lexs[k].chars,
         kind   |-> lexs[k].kind,
         offset |-> Len(TypedUpTo(lexs, k - 1, layout))
                        + Len(Gap(lexs, k, layout))]]

ErrorsInit ==
    /\ fm = <<>>
    /\ pc = "start"
    /\ received = <<>>
    /\ IdleStreams
    /\ IdleCall
    /\ text = <<>>
    /\ domain = NewCache
    /\ IdleThreads

\* the caller types a text
Type ==
    /\ pc = "start"
    /\ \E lexs \in LexemeSeqs, layout \in Layouts :
          /\ text' = Typed(lexs, layout)
          /\ received' = Placed(lexs, layout)
    /\ pc' = "typed"
    /\ UNCHANGED <<fm, cnf, st, ts, tt, arg, ret, domain, threads, lock>>

\* what may lie in memory behind the terminating NUL of the text
Garbage == {<<>>, <<"]">>, <<"]", "&">>}

\* the outcome of a parse as the caller sees it; past_end tells that the
\* tokenizer has read behind the terminating NUL
Outcome(r, past_end) ==
    [call |-> "parse", status |-> r.status, what |-> r.what,
     offset |-> r.offset, pn |-> r.pn, past_end |-> past_end]

Crashed == [call |-> "parse", status |-> "crashed", what |-> "",
            offset |-> 0, pn |-> <<>>, past_end |-> TRUE]

\* Formula(text, &domain).  When "while (s[i++] != ']')" runs over the
\* terminating NUL, the tokenizer goes on through whatever lies behind the
\* text: it finds a ']' there and the parse continues with the bytes after
\* it, or it reaches memory that cannot be read.
ParseTyped ==
    /\ pc = "typed"
    /\ LET r == parse(text, domain)
       IN IF r.status # "undefined"
          THEN ret' = Outcome(r, FALSE) /\ domain' = r.d
          ELSE \E behind \in Garbage :
                  LET q == parse(text \o <<NUL>> \o behind, domain)
                  IN IF q.status = "undefined"
                     THEN ret' = Crashed /\ domain' = domain
                     ELSE ret' = Outcome(q, TRUE) /\ domain' = q.d
    /\ pc' = "parsed"
    /\ UNCHANGED <<fm, received, cnf, st, ts, tt, arg, text, threads, lock>>

ErrorsNext == Type \/ ParseTyped

SpecErrors == ErrorsInit /\ [][ErrorsNext]_vars_all

\* what the alternation of terms and infixes lets lexeme k be
RECURSIVE Expected(_, _)
Expected(lexs, k) ==
    IF k = 1 THEN "term"
    ELSE LET before == Expected(lexs, k - 1)
             kind   == lexs[k - 1].kind
         IN CASE kind = "atom"   -> "infix"
              [] kind = "close"  -> "infix"
              [] kind = "binary" -> "term"
              [] kind = "open"   -> "term"
              [] OTHER           -> before

\* lexeme k, or the end of the input at k = Len(lexs) + 1, is out of place
Offending(lexs, k) ==
    IF k = Len(lexs) + 1 THEN Expected(lexs, k) = "term"
    ELSE \/ lexs[k].kind \in {"atom", "unary", "open"}
            /\ Expected(lexs, k) = "infix"
         \/ lexs[k].kind \in {"binary", "close"}
            /\ Expected(lexs, k) = "term"

\* the opening parentheses still open before lexeme k
RECURSIVE Depth(_, _)
Depth(lexs, k) ==
    IF k = 1 THEN 0
    ELSE Depth(lexs, k - 1)
           + (IF lexs[k - 1].kind = "open" THEN 1
              ELSE IF lexs[k - 1].kind = "close" THEN -1 ELSE 0)

\* no lexeme before k fails for another reason
Sound(lexs, k) ==
    \A j \in 1..(k - 1) :
       /\ lexs[j].kind \notin {"unknown", "bracket"}
       /\ lexs[j].kind = "close" => Depth(lexs, j) > 0

InfixExpected == {"Infix expected but got term"}
TermExpected  == {"Term expected but got infix",
                  "Term expected when encountering closing parenthesis",
                  "Term expected but EOF reached"}

\* C15: the parser expects terms and infixes in alternation, a term first;
\* the first lexeme out of place, or the end of the input where a term is
\* expected, fails the parse with 'Infix expected' for a constant, variable,
\* ~ or ( and 'Term expected' for a binary operator, ) or the end, at the
\* 0-based offset of that lexeme (the length of the text for the end),
\* whatever follows it.
ExpectationErrors ==
    pc = "parsed" =>
     /\ (ret.what \in InfixExpected \cup TermExpected /\ ~ret.past_end) =>
           \E k \in 1..(Len(received) + 1) :
              /\ Offending(received, k)
              /\ \A j \in 1..(k - 1) : ~Offending(received, j)
     /\ \A k \in 1..(Len(received) + 1) :
          ( /\ Offending(received, k)
            /\ \A j \in 1..(k - 1) : ~Offending(received, j)
            /\ Sound(received, k) )
          => /\ ret.status = "error"
             /\ ret.offset = IF k = Len(received) + 1 THEN Len(text)
                             ELSE received[k].offset
             /\ ret.what \in IF k <= Len(received)
                                /\ received[k].kind \in {"atom", "unary", "open"}
                             THEN InfixExpected ELSE TermExpected

\* a lexeme out of place at a positive offset with a token the parser does
\* not know after it
ExpectationWitness ==
    /\ pc = "parsed"
    /\ ret.status = "error"
    /\ ret.what \in InfixExpected
    /\ ret.offset > 1
    /\ \E k \in 1..Len(received) :
          /\ received[k].offset = ret.offset
          /\ \E j \in (k + 1)..Len(received) : received[j].kind = "unknown"

\* the text of the claim
NotAPlusB == <<"~", "a", " ", "+", " ", "b">>

\* C16 as stated: parsing "~a + b" fails with 'Unrecognized token' at
\* offset 4.
UnrecognizedAtFour ==
    (pc = "parsed" /\ text = NotAPlusB)
       => /\ ret.status = "error"
          /\ ret.what = "Unrecognized token"
          /\ ret.offset = 4

\* C16 amended: parsing "~a + b" fails with 'Unrecognized token' at
\* offset 3, the 0-based position of the + in the text.
UnrecognizedAtPlus ==
    (pc = "parsed" /\ text = NotAPlusB)
       => /\ ret.status = "error"
          /\ ret.what = "Unrecognized token"
          /\ ret.offset = 3
          /\ At(text, ret.offset) = "+"

\* "~a + b" has been parsed and has failed
UnrecognizedWitness ==
    /\ pc = "parsed"
    /\ text = NotAPlusB
    /\ ret.status = "error"

\* the index after the subtree that starts at node i of a preorder vector,
\* or 0 when the vector ends before the subtree does
RECURSIVE SubtreeEnd(_, _)
SubtreeEnd(pn, i) ==
    IF i < 1 \/ i > Len(pn) THEN 0
    ELSE IF Arity(pn[i]) = 0 THEN i + 1
    ELSE IF Arity(pn[i]) = 1 THEN SubtreeEnd(pn, i + 1)
    ELSE SubtreeEnd(pn, SubtreeEnd(pn, i + 1))

\* a preorder vector that holds exactly one tree
WellFormed(pn) == SubtreeEnd(pn, 1) = Len(pn) + 1

OperandErrors == {"Missing operands",
                  "No operands left after reduction",
                  "Excess operands after reduction"}

\* C29: no input makes the parser fail with 'Missing operands', 'No
\* operands left after reduction' or 'Excess operands after reduction', and
\* every successful parse returns a well-formed preorder vector.
OperandsSuffice ==
    pc = "parsed" =>
       /\ ret.what \notin OperandErrors
       /\ ret.status = "ok" => WellFormed(ret.pn)

\* a text with parentheses and a negation has been parsed
OperandsWitness ==
    /\ pc = "parsed"
    /\ ret.status = "ok"
    /\ Len(ret.pn) >= 2
    /\ \E k \in 1..Len(received) : received[k].kind = "close"
    /\ \E k \in 1..Len(received) : received[k].kind = "unary"

\* C30: the tokenizer never reads behind the end of the input, also when
\* an opening [ has no closing ], and the parse succeeds or fails with a
\* Parser exception.
TokenizerInBounds ==
    pc = "parsed" =>
       /\ ~ret.past_end
       /\ ret.status \in {"ok", "error"}

(***************************************************************************)
(* Specification of the connectives of Formula: two formulas, each with    *)
(* the handle of its Domain, are joined by one of the operators that       *)
(* formula.cpp compiles.  operator>> and the operator== that builds an     *)
(* equivalence are compiled out (#if 0); the operator== of formula.hpp is  *)
(* the comparison of two formulas.                                         *)
(***************************************************************************)
MaxOperandNodes == 2

\* the Domain objects of the operands
Handles == {1, 2}

Operands ==
    {[pn |-> f, domain |-> h] :
        f \in UNION {FormulasOfSize(n) : n \in 1..MaxOperandNodes},
        h \in Handles}

NoOperand == [pn |-> <<>>, domain |-> 0]

ConnectiveInit ==
    /\ fm = <<>>
    /\ pc = "start"
    /\ received \in {<<lhs, rhs>> : lhs \in Operands, rhs \in Operands}
    /\ IdleStreams
    /\ IdleCall
    /\ IdleParser
    /\ IdleThreads

\* Formula::operator&, operator| and operator^
connective(type, lhs, rhs) ==
    IF lhs.domain # rhs.domain
    THEN [call |-> type, thrown |-> "Connective", kind |-> "none",
          formula |-> NoOperand, equal |-> FALSE]
    ELSE [call |-> type, thrown |-> "none", kind |-> "formula",
          formula |-> [pn     |-> make_binary(type, lhs.pn, rhs.pn),
                       domain |-> lhs.domain],
          equal |-> FALSE]

\* Formula::operator==, what "lhs == rhs" calls
compare(lhs, rhs) ==
    [call |-> "Eqv", thrown |-> "none", kind |-> "bool",
     formula |-> NoOperand,
     equal |-> (lhs.domain = rhs.domain /\ lhs.pn = rhs.pn)]

\* lhs & rhs, lhs | rhs, lhs ^ rhs
Connect ==
    /\ pc = "start"
    /\ \E type \in {"And", "Or", "Xor"} :
          ret' = connective(type, received[1], received[2])
    /\ pc' = "connected"
    /\ UNCHANGED <<fm, received, cnf, st, ts, tt, arg, text, domain, threads, lock>>

\* lhs == rhs
Compare ==
    /\ pc = "start"
    /\ ret' = compare(received[1], received[2])
    /\ pc' = "connected"
    /\ UNCHANGED <<fm, received, cnf, st, ts, tt, arg, text, domain, threads, lock>>

ConnectiveNext == Connect \/ Compare

SpecConnective == ConnectiveInit /\ [][ConnectiveNext]_vars_all

\* the truth table of a binary connective
TruthOf(type, x, y) ==
    IF type = "And" THEN x /\ y
    ELSE IF type = "Or" THEN x \/ y
    ELSE IF type = "Impl" THEN x => y
    ELSE IF type = "Eqv" THEN x <=> y
    ELSE x # y

\* C25: a binary connective (and, or, impl, eqv, xor) applied to two
\* formulas fails with the Connective exception exactly when their Domain
\* handles differ, and otherwise returns a formula over the same Domain
\* whose value under every total assignment is the connective of the values
\* of the operands.
ConnectiveContract ==
    pc = "connected" =>
       LET lhs == received[1]
           rhs == received[2]
       IN /\ ret.thrown = "Connective" <=> lhs.domain # rhs.domain
          /\ lhs.domain = rhs.domain =>
                /\ ret.thrown = "none"
                /\ ret.kind = "formula"
                /\ ret.formula.domain = lhs.domain
                /\ \A a \in TotalAssignments(Names) :
                      eval(ret.formula.pn, a).value
                         = TruthOf(ret.call, eval(lhs.pn, a).value,
                                             eval(rhs.pn, a).value)

=============================================================================
